---- MODULE Spec2Model ----
(***************************************************************************)
(* Model of the per-user spending forecaster of budget-app                 *)
(* (backend/app/predictor.py) and of the two routers that own a predictor  *)
(* (backend/app/routers/predictions.py, backend/app/routers/transactions.py)*)
(*                                                                         *)
(* Conventions                                                             *)
(*   - an amount is an integer number of cents (1/100 of a currency unit), *)
(*     so round(x, 2) of the code is rounding to an integer;               *)
(*   - a date is kept as its (year, month): the code reads a date only     *)
(*     through dt.year, dt.month and replace(day=1);                       *)
(*   - a category name is an integer, ordered as the names sort;           *)
(*   - a DataFrame of transactions is a sequence of rows                   *)
(*     [category, year, month, amount, copies]: a row stands for `copies`  *)
(*     transactions (distinct ids) that agree in category, date, amount;   *)
(*   - a nullable (NaN-able) number is <<>> (NaN) or <<v>>.                *)
(***************************************************************************)
EXTENDS Integers, Sequences, FiniteSets, TLC

VARIABLES
    df,       \* SpecAgg: the DataFrame handed to _aggregate_to_monthly
    monthly,  \* SpecAgg: the DataFrame it returned
    aggpc     \* SpecAgg: "input" before the call, "done" after it, "off" elsewhere

VARIABLES
    store,         \* the transactions table: person_id -> expense rows ordered by date
    predictor,     \* routers/predictions.py: the module global _predictor
    ml_predictor,  \* routers/transactions.py: the module global _ml_predictor
    clock,         \* datetime.now(), counted in trainings that read it
    learner,       \* the learner behind GradientBoostingRegressor
    nops,          \* the number of writes to the transactions table so far
    pc,            \* SpecConc: where each request thread stands
    last           \* the last call: its arguments, the bundle it used, what it returned

aggvars == <<df, monthly, aggpc>>
mainvars == <<store, predictor, ml_predictor, clock, learner, nops, pc, last>>
vars == <<df, monthly, aggpc, store, predictor, ml_predictor, clock, learner, nops, pc, last>>

\* SpecAgg runs one method on a DataFrame: there is no table and no predictor
NoProcess ==
    /\ store = <<>>
    /\ predictor = <<>>
    /\ ml_predictor = <<>>
    /\ clock = 0
    /\ learner = ""
    /\ nops = 0
    /\ pc = <<>>
    /\ last = <<>>

\* the lifecycle specifications call _aggregate_to_monthly inside _train_model
NoAggCall ==
    /\ df = <<>>
    /\ monthly = <<>>
    /\ aggpc = "off"

(***************************************************************************)
(* Bounds of the model                                                     *)
(***************************************************************************)
MaxTx == 3            \* SpecAgg: most rows of the input DataFrame
AggSpan == 6          \* SpecAgg: months the input dates are drawn from
AggFirstYear == 2023  \* SpecAgg: the first of these months is
AggFirstMonth == 9    \*          September 2023 (the span crosses a year end)

AggCategories == {1, 2}
AggAmounts == {0, 1250}

(***************************************************************************)
(* Nullable numbers (pandas NaN)                                           *)
(***************************************************************************)
NaN == <<>>
Some(v) == <<v>>
notna(x) == x # NaN
fillna(x, v) == IF x = NaN THEN v ELSE x[1]

(***************************************************************************)
(* Dates                                                                   *)
(***************************************************************************)
Date(y, m) == [year |-> y, month |-> m]

\* d1 <= d2 in calendar order
DateLeq(d1, d2) ==
    \/ d1.year < d2.year
    \/ d1.year = d2.year /\ d1.month <= d2.month

\* the month start that follows d: one step of freq='MS'
NextMonthStart(d) ==
    IF d.month = 12 THEN Date(d.year + 1, 1) ELSE Date(d.year, d.month + 1)

\* pd.date_range(start, end, freq='MS') for two month starts
RECURSIVE date_range(_, _)
date_range(start, end) ==
    IF DateLeq(start, end)
    THEN <<start>> \o date_range(NextMonthStart(start), end)
    ELSE <<>>

(***************************************************************************)
(* DataFrame helpers                                                       *)
(***************************************************************************)
RowDate(r) == Date(r.year, r.month)

\* Series.sum of the amount column
RECURSIVE SumAmount(_)
SumAmount(rows) ==
    IF rows = <<>> THEN 0
    ELSE Head(rows).amount * Head(rows).copies + SumAmount(Tail(rows))

\* len(df), the count of the id column
RECURSIVE CountRows(_)
CountRows(rows) ==
    IF rows = <<>> THEN 0 ELSE Head(rows).copies + CountRows(Tail(rows))

Range(s) == {s[i] : i \in DOMAIN s}

\* key order of sort_values(["category", "year", "month"])
KeyLeq(a, b) ==
    \/ a.category < b.category
    \/ a.category = b.category /\ DateLeq(RowDate(a), RowDate(b))

\* r put into the sorted s behind every row whose key is not greater
RECURSIVE InsertSorted(_, _)
InsertSorted(r, s) ==
    IF s = <<>> \/ KeyLeq(s[Len(s)], r) THEN Append(s, r)
    ELSE Append(InsertSorted(r, SubSeq(s, 1, Len(s) - 1)), s[Len(s)])

\* DataFrame.sort_values(["category", "year", "month"]) (stable)
RECURSIVE sort_values(_)
sort_values(s) ==
    IF s = <<>> THEN <<>>
    ELSE InsertSorted(s[Len(s)], sort_values(SubSeq(s, 1, Len(s) - 1)))

\* a set of keyed rows as a sequence in key order (groupby sorts its keys)
RECURSIVE SortedRows(_)
SortedRows(S) ==
    IF S = {} THEN <<>>
    ELSE LET r == CHOOSE x \in S : \A y \in S : KeyLeq(x, y)
         IN <<r>> \o SortedRows(S \ {r})

\* a set of integers as an increasing sequence
RECURSIVE SortedInts(_)
SortedInts(S) ==
    IF S = {} THEN <<>>
    ELSE LET x == CHOOSE v \in S : \A w \in S : v <= w
         IN <<x>> \o SortedInts(S \ {x})

(***************************************************************************)
(* UserMLPredictor._aggregate_to_monthly                                   *)
(***************************************************************************)
GroupKey(r) == [category |-> r.category, year |-> r.year, month |-> r.month]

\* mutant: the aggregation keeps the last amount of a group (agg "last" for "sum")
GroupByMonthLast(d) ==
    SortedRows({ LET g == SelectSeq(d, LAMBDA r : GroupKey(r) = k)
                 IN [category |-> k.category, year |-> k.year, month |-> k.month,
                     amount |-> g[Len(g)].amount, tx_count |-> CountRows(g)]
                 : k \in {GroupKey(d[i]) : i \in DOMAIN d} })

\* df.groupby(["category", "year", "month"]).agg({"amount": "sum", "id": "count"})
GroupByMonth(d) ==
    SortedRows({ LET g == SelectSeq(d, LAMBDA r : GroupKey(r) = k)
                 IN [category |-> k.category, year |-> k.year, month |-> k.month,
                     amount |-> SumAmount(g), tx_count |-> CountRows(g)]
                 : k \in {GroupKey(d[i]) : i \in DOMAIN d} })

\* df["date"].min() / .max(): the rows come ordered by date or not
MinDate(d) ==
    CHOOSE x \in {RowDate(d[i]) : i \in DOMAIN d} :
        \A j \in DOMAIN d : DateLeq(x, RowDate(d[j]))
MaxDate(d) ==
    CHOOSE x \in {RowDate(d[i]) : i \in DOMAIN d} :
        \A j \in DOMAIN d : DateLeq(RowDate(d[j]), x)

\* the nested loops that build complete_data: categories outer, dates inner
CompleteData(cats, dates) ==
    [k \in 1..(Len(cats) * Len(dates)) |->
        LET c == cats[((k - 1) \div Len(dates)) + 1]
            t == dates[((k - 1) % Len(dates)) + 1]
        IN [category |-> c, year |-> t.year, month |-> t.month]]

\* mutant: the merge keeps only the rows that match (how="inner" for how="left")
RECURSIVE MergeInner(_, _)
MergeInner(left, right) ==
    IF left = <<>> THEN <<>>
    ELSE LET l == Head(left)
             m == SelectSeq(right, LAMBDA g : GroupKey(g) = l)
         IN [i \in DOMAIN m |->
                [category |-> l.category, year |-> l.year, month |-> l.month,
                 amount |-> Some(m[i].amount), tx_count |-> Some(m[i].tx_count)]]
            \o MergeInner(Tail(left), right)

\* complete_df.merge(monthly, on=[category, year, month], how="left"):
\* one row per match, one row of NaN where nothing matches
RECURSIVE MergeLeft(_, _)
MergeLeft(left, right) ==
    IF left = <<>> THEN <<>>
    ELSE LET l == Head(left)
             m == SelectSeq(right, LAMBDA g : GroupKey(g) = l)
             rows == IF m = <<>>
                     THEN <<[category |-> l.category, year |-> l.year, month |-> l.month,
                             amount |-> NaN, tx_count |-> NaN]>>
                     ELSE [i \in DOMAIN m |->
                             [category |-> l.category, year |-> l.year, month |-> l.month,
                              amount |-> Some(m[i].amount),
                              tx_count |-> Some(m[i].tx_count)]]
         IN rows \o MergeLeft(Tail(left), right)

\* .fillna({"amount": 0, "tx_count": 0})
FillZero(rows) ==
    [i \in DOMAIN rows |->
        [category |-> rows[i].category, year |-> rows[i].year, month |-> rows[i].month,
         amount |-> fillna(rows[i].amount, 0), tx_count |-> fillna(rows[i].tx_count, 0)]]

\* the unique categories of the grouped frame, in its (sorted) order
UniqueCategories(g) == SortedInts({g[i].category : i \in DOMAIN g})

_aggregate_to_monthly(d) ==
    IF d = <<>> THEN <<>>
    ELSE LET grouped == GroupByMonth(d)
             categories == UniqueCategories(grouped)
             dates == date_range(MinDate(d), MaxDate(d))
         IN sort_values(FillZero(MergeLeft(CompleteData(categories, dates), grouped)))

(***************************************************************************)
(* SpecAgg: _aggregate_to_monthly applied to every small DataFrame         *)
(***************************************************************************)
\* the k-th month (k = 0, 1, ...) counted from AggFirstMonth of AggFirstYear
RECURSIVE MonthAfter(_, _)
MonthAfter(d, k) == IF k = 0 THEN d ELSE MonthAfter(NextMonthStart(d), k - 1)

AggDates == {MonthAfter(Date(AggFirstYear, ((AggFirstMonth - 1) % 12) + 1), k) : k \in 0..(AggSpan - 1)}

\* The DataFrames _get_user_transactions can return are built row by row,
\* ordered by date (ORDER BY t.date); here every row is one transaction.
InitAgg ==
    /\ df = <<>>
    /\ monthly = <<>>
    /\ aggpc = "input"
    /\ NoProcess

\* one more row of the query result, dated no earlier than the row before it
FetchRow(c, t, a) ==
    /\ aggpc = "input"
    /\ Len(df) < MaxTx
    /\ IF df = <<>> THEN TRUE ELSE DateLeq(RowDate(df[Len(df)]), t)
    /\ df' = Append(df, [category |-> c, year |-> t.year, month |-> t.month,
                         amount |-> a, copies |-> 1])
    /\ UNCHANGED <<monthly, aggpc>>
    /\ UNCHANGED mainvars

AggregateToMonthly ==
    /\ aggpc = "input"
    /\ monthly' = _aggregate_to_monthly(df)
    /\ aggpc' = "done"
    /\ UNCHANGED df
    /\ UNCHANGED mainvars

NextAgg ==
    \/ \E c \in AggCategories, t \in AggDates, a \in AggAmounts : FetchRow(c, t, a)
    \/ AggregateToMonthly

SpecAgg == InitAgg /\ [][NextAgg]_vars

(***************************************************************************)
(* Claims about _aggregate_to_monthly (checked under SpecAgg)              *)
(***************************************************************************)
\* the input rows of category c dated in month m of year y
InputRowsAt(c, y, m) ==
    {i \in DOMAIN df : df[i].category = c /\ df[i].year = y /\ df[i].month = m}

\* the output records of category c for month m of year y
RecordsAt(c, y, m) ==
    {i \in DOMAIN monthly :
        monthly[i].category = c /\ monthly[i].year = y /\ monthly[i].month = m}

\* (y, m) is a calendar month between the earliest and the latest input row
InInputRange(y, m) ==
    /\ m \in 1..12
    /\ \E i \in DOMAIN df : DateLeq(RowDate(df[i]), Date(y, m))
    /\ \E j \in DOMAIN df : DateLeq(Date(y, m), RowDate(df[j]))

\* the calendar months of that range
InputRangeMonths ==
    {t \in [year : {df[i].year : i \in DOMAIN df}, month : 1..12] : InInputRange(t.year, t.month)}

InputCategories == {df[i].category : i \in DOMAIN df}
InputYears == {df[i].year : i \in DOMAIN df}

\* the (year, month) pairs the output holds for category c
MonthsOf(c) ==
    {Date(monthly[i].year, monthly[i].month) : i \in {j \in DOMAIN monthly : monthly[j].category = c}}

\* C1: for a non-empty input, _aggregate_to_monthly returns exactly one record
\* for each (category of the input, calendar month between the month of the
\* earliest and the month of the latest transaction of any category); it
\* returns no other record, and every category has the same months.
C1_CompletePanel ==
    (aggpc = "done" /\ df # <<>>) =>
        /\ \A c \in InputCategories : \A y \in InputYears : \A m \in 1..12 :
              InInputRange(y, m) => Cardinality(RecordsAt(c, y, m)) = 1
        /\ \A i \in DOMAIN monthly :
              /\ monthly[i].category \in InputCategories
              /\ InInputRange(monthly[i].year, monthly[i].month)
              /\ \A j \in DOMAIN monthly :
                    GroupKey(monthly[i]) = GroupKey(monthly[j]) => i = j
        /\ \A c1 \in InputCategories : \A c2 \in InputCategories :
              MonthsOf(c1) = MonthsOf(c2)

\* C1 witness: two categories, a range that crosses the year end, and a
\* (category, month) pair without any transaction
C1_Witness ==
    /\ aggpc = "done"
    /\ Cardinality(InputCategories) = 2
    /\ Cardinality(InputYears) = 2
    /\ \E i \in DOMAIN monthly : monthly[i].tx_count = 0
    /\ Len(monthly) >= 8

RECURSIVE SumOver(_, _)
SumOver(S, f) ==
    IF S = {} THEN 0
    ELSE LET x == CHOOSE v \in S : TRUE IN f[x] + SumOver(S \ {x}, f)

\* C2: each record's amount is the sum, and its tx_count the number, of the
\* input transactions of its category and month (both 0 where there is none),
\* and the records' amounts add up to the total of the input.
C2_SumsAndCounts ==
    aggpc = "done" =>
        /\ \A i \in DOMAIN monthly :
              LET rows == InputRowsAt(monthly[i].category, monthly[i].year, monthly[i].month)
              IN /\ monthly[i].amount = SumOver(rows, [k \in rows |-> df[k].amount * df[k].copies])
                 /\ monthly[i].tx_count = SumOver(rows, [k \in rows |-> df[k].copies])
                 /\ rows = {} => monthly[i].amount = 0 /\ monthly[i].tx_count = 0
        /\ SumOver(DOMAIN monthly, [i \in DOMAIN monthly |-> monthly[i].amount])
             = SumOver(DOMAIN df, [k \in DOMAIN df |-> df[k].amount * df[k].copies])
        /\ \A c \in InputCategories :
              \* transactions in only 2 of 6 months: 6 records, 4 of them zero
              (/\ Cardinality(InputRangeMonths) = 6
               /\ Cardinality({RowDate(df[k]) : k \in {n \in DOMAIN df : df[n].category = c}}) = 2)
              => /\ Cardinality({i \in DOMAIN monthly : monthly[i].category = c}) = 6
                 /\ Cardinality({i \in DOMAIN monthly :
                        /\ monthly[i].category = c
                        /\ monthly[i].amount = 0 /\ monthly[i].tx_count = 0}) = 4

\* C2 witness: a month with two transactions that add up, and a category with
\* transactions in 2 of the 6 months of the range
C2_Witness ==
    /\ aggpc = "done"
    /\ \E i \in DOMAIN monthly : monthly[i].tx_count = 2 /\ monthly[i].amount = 2500
    /\ \E c \in InputCategories :
          /\ Cardinality({i \in DOMAIN monthly : monthly[i].category = c}) = 6
          /\ Cardinality({i \in DOMAIN monthly :
                 monthly[i].category = c /\ monthly[i].tx_count = 0}) = 4


(***************************************************************************)
(* Exact fractions: the ratios the code computes in floating point         *)
(***************************************************************************)
\* n / d with the sign carried by the numerator
Frac(n, d) == IF d < 0 THEN [num |-> 0 - n, den |-> 0 - d] ELSE [num |-> n, den |-> d]
FracLt(a, b) == a.num * b.den < b.num * a.den
FracOfInt(v) == [num |-> v, den |-> 1]

\* Series.clip(lo, hi) / np.clip(x, lo, hi) for integers lo <= hi
Clip(x, lo, hi) ==
    IF FracLt(x, FracOfInt(lo)) THEN FracOfInt(lo)
    ELSE IF FracLt(FracOfInt(hi), x) THEN FracOfInt(hi)
    ELSE x

\* sum of the squares of a sequence of integers, and their sum
RECURSIVE SumSq(_)
SumSq(xs) == IF xs = <<>> THEN 0 ELSE Head(xs) * Head(xs) + SumSq(Tail(xs))
RECURSIVE SumInts(_)
SumInts(xs) == IF xs = <<>> THEN 0 ELSE Head(xs) + SumInts(Tail(xs))

\* Series.mean()
Mean(xs) == Frac(SumInts(xs), Len(xs))

\* the square of Series.std() (ddof = 1); NaN for fewer than 2 values
VarianceOf(xs) ==
    IF Len(xs) < 2 THEN NaN
    ELSE Some(Frac(Len(xs) * SumSq(xs) - SumInts(xs) * SumInts(xs),
                   Len(xs) * (Len(xs) - 1)))

(***************************************************************************)
(* UserMLPredictor._create_features                                        *)
(* A standard deviation is kept as its square (cat_std_sq, cv_sq): the     *)
(* code compares it with constants only.                                   *)
(***************************************************************************)
\* mutant: the lags begin at the row's own month
ShiftFromOwnMonth(amounts, j, k) ==
    IF j - k + 1 >= 1 THEN Some(amounts[j - k + 1]) ELSE NaN

\* groupby("category")["amount"].shift(k) at position j of a category's series
Shift(amounts, j, k) == IF j - k >= 1 THEN Some(amounts[j - k]) ELSE NaN

\* mutant: pct_change without the clip
PctChangeNoClip(amounts, j) ==
    IF j = 1 THEN FracOfInt(0)
    ELSE IF amounts[j - 1] = 0 THEN FracOfInt(0)
    ELSE Frac(amounts[j] - amounts[j - 1], amounts[j - 1])

\* groupby("category")["amount"].pct_change(1), then
\* replace([inf, -inf], 0).fillna(0).clip(-2, 2)
PctChange(amounts, j) ==
    IF j = 1 THEN FracOfInt(0)                          \* NaN -> 0
    ELSE IF amounts[j - 1] = 0 THEN FracOfInt(0)        \* inf or NaN -> 0
    ELSE Clip(Frac(amounts[j] - amounts[j - 1], amounts[j - 1]), -2, 2)

\* np.sign(lag_1 - lag_2).fillna(0)
Sign(v) == IF v > 0 THEN 1 ELSE IF v < 0 THEN -1 ELSE 0
TrendDirection(lag_1, lag_2) ==
    IF lag_1 = NaN \/ lag_2 = NaN THEN 0 ELSE Sign(lag_1[1] - lag_2[1])

\* the rolling window of 3 that ends at position j
Window(amounts, j) == SubSeq(amounts, IF j > 3 THEN j - 2 ELSE 1, j)

\* cv = (rolling_std / rolling_mean.replace(0, 1)).fillna(0).clip(0, 3), squared:
\* rolling(window=3, min_periods=1).mean(), rolling(window=3, min_periods=2).std()
CvSq(amounts, j) ==
    LET w == Window(amounts, j)
        var == fillna(VarianceOf(w), FracOfInt(0))
        sum == SumInts(w)
    IN IF sum = 0 THEN Clip(var, 0, 9)                  \* the mean 0 replaced by 1
       ELSE IF sum < 0 THEN FracOfInt(0)                \* a negative ratio clips to 0
       ELSE Clip(Frac(var.num * Len(w) * Len(w), var.den * sum * sum), 0, 9)

\* relative_to_avg = (lag_1 / cat_avg.replace(0, eps)).fillna(1).clip(0, 5)
RelativeToAvg(lag_1, cat_avg) ==
    IF lag_1 = NaN THEN FracOfInt(1)
    ELSE IF cat_avg.num = 0
         THEN (IF lag_1[1] > 0 THEN FracOfInt(5) ELSE FracOfInt(0))   \* lag_1 / 1e-6
    ELSE Clip(Frac(lag_1[1] * cat_avg.den, cat_avg.num), 0, 5)

\* the amounts of the rows of s, in order
AmountsOf(s) == [j \in DOMAIN s |-> s[j].amount]

\* the feature rows of one category's series s (rows in date order)
FeatureRows(s) ==
    LET amounts == AmountsOf(s)
        cat_avg == Mean(amounts)
        cat_std_sq == fillna(VarianceOf(amounts), FracOfInt(0))
    IN [j \in DOMAIN s |->
          LET lag_1 == Shift(amounts, j, 1)
              lag_2 == Shift(amounts, j, 2)
              lag_3 == Shift(amounts, j, 3)
          IN [category |-> s[j].category, year |-> s[j].year, month |-> s[j].month,
              amount |-> s[j].amount, tx_count |-> s[j].tx_count,
              month_num |-> s[j].month,
              lag_1 |-> lag_1, lag_2 |-> lag_2, lag_3 |-> lag_3,
              pct_change |-> PctChange(amounts, j),
              trend_direction |-> TrendDirection(lag_1, lag_2),
              cv_sq |-> CvSq(amounts, j),
              cat_avg |-> cat_avg, cat_std_sq |-> cat_std_sq,
              relative_to_avg |-> RelativeToAvg(lag_1, cat_avg)]]

\* the per-category frames of a monthly frame, concatenated in category order
RECURSIVE FeaturesByCategory(_, _)
FeaturesByCategory(mdf, cats) ==
    IF cats = <<>> THEN <<>>
    ELSE FeatureRows(SelectSeq(mdf, LAMBDA r : r.category = Head(cats)))
         \o FeaturesByCategory(mdf, Tail(cats))

_create_features(monthly_df) ==
    FeaturesByCategory(monthly_df, UniqueCategories(monthly_df))


(***************************************************************************)
(* The regression capability (sklearn GradientBoostingRegressor):          *)
(* fit(X, y) -> model, predict(X) -> y.  With random_state fixed the       *)
(* fitted model is a function of the training data; which function is     *)
(* not known, so the learner is one of a few candidates, chosen once.      *)
(***************************************************************************)
Regressors == {"seasonal", "negative"}

\* model.predict(X)[0] for the learner `regressor`, in cents
Predict(regressor, X) ==
    IF regressor = "seasonal"
    THEN X.lag_1 + 10 * X.month_num + 5 * X.trend_direction - 60
    ELSE 0 - 25

(***************************************************************************)
(* UserMLPredictor._train_model                                            *)
(***************************************************************************)
MIN_TRANSACTIONS_FOR_ML == 30
MIN_MONTHS_FOR_ML == 4
MIN_FEATURE_ROWS == 6

\* Python None
None == [none |-> TRUE]

\* featured_df.dropna(subset=["lag_1", "lag_2", "lag_3"])
DropNaLags(rows) ==
    SelectSeq(rows, LAMBDA r : notna(r.lag_1) /\ notna(r.lag_2) /\ notna(r.lag_3))

\* the last row of category c in a frame that holds one
LastRowOf(rows, c) ==
    LET g == SelectSeq(rows, LAMBDA r : r.category = c) IN g[Len(g)]

\* mutant: no check of the number of transactions
TrainModelNoCountCheck(d, regressor, now) ==
    IF d = <<>> THEN None
    ELSE
    LET monthly_df == _aggregate_to_monthly(d)
        unique_months == Cardinality({RowDate(monthly_df[i]) : i \in DOMAIN monthly_df})
        featured_df == DropNaLags(_create_features(monthly_df))
        cats == {featured_df[i].category : i \in DOMAIN featured_df}
    IN IF unique_months < MIN_MONTHS_FOR_ML \/ Len(featured_df) < MIN_FEATURE_ROWS THEN None
       ELSE [model |-> regressor,
             categories |-> {monthly_df[i].category : i \in DOMAIN monthly_df},
             cat_stats |-> [c \in cats |->
                 [cat_avg |-> LastRowOf(featured_df, c).cat_avg,
                  cat_std_sq |-> LastRowOf(featured_df, c).cat_std_sq]],
             latest_lags |-> [c \in cats |->
                 LET r == LastRowOf(featured_df, c)
                 IN [lag_1 |-> r.lag_1, lag_2 |-> r.lag_2, lag_3 |-> r.lag_3,
                     pct_change |-> r.pct_change, cv_sq |-> r.cv_sq]],
             metrics |-> [training_months |-> unique_months,
                          training_samples |-> CountRows(d)],
             trained_at |-> now]

\* _train_model on the frame d that _get_user_transactions returned, with
\* the learner `regressor` and datetime.now() = now: the bundle, or None.
\* Of the bundle, mae, r2 and the feature importances are left out: they are
\* outputs of the regression capability that nothing in the class reads.
_train_model(d, regressor, now) ==
    IF CountRows(d) < MIN_TRANSACTIONS_FOR_ML THEN None
    ELSE
    LET monthly_df == _aggregate_to_monthly(d)
        unique_months == Cardinality({RowDate(monthly_df[i]) : i \in DOMAIN monthly_df})
    IN IF unique_months < MIN_MONTHS_FOR_ML THEN None
       ELSE
       LET featured_df == DropNaLags(_create_features(monthly_df))
           \* featured_df.groupby("category"): the categories that kept a row
           cats == {featured_df[i].category : i \in DOMAIN featured_df}
       IN IF Len(featured_df) < MIN_FEATURE_ROWS THEN None
          ELSE [model |-> regressor,
                \* label_encoder.classes_
                categories |-> {monthly_df[i].category : i \in DOMAIN monthly_df},
                cat_stats |-> [c \in cats |->
                    [cat_avg |-> LastRowOf(featured_df, c).cat_avg,
                     cat_std_sq |-> LastRowOf(featured_df, c).cat_std_sq]],
                latest_lags |-> [c \in cats |->
                    LET r == LastRowOf(featured_df, c)
                    IN [lag_1 |-> r.lag_1, lag_2 |-> r.lag_2, lag_3 |-> r.lag_3,
                        pct_change |-> r.pct_change, cv_sq |-> r.cv_sq]],
                metrics |-> [training_months |-> unique_months,
                             training_samples |-> CountRows(d)],
                trained_at |-> now]


(***************************************************************************)
(* UserMLPredictor._get_or_train_model and retrain_user_model, on the      *)
(* dict _user_models (a function: None where the dict has no key)          *)
(***************************************************************************)
Persons == {1, 2}

\* UserMLPredictor.__init__: an empty _user_models
NewPredictor == [user_models |-> [p \in Persons |-> None]]

\* get_predictor / get_ml_predictor: the module's singleton, created on first use
GetSingleton(singleton) == IF singleton = None THEN NewPredictor ELSE singleton

\* mutant: the lookup trains again although a bundle is cached
GetOrTrainAlways(um, person_id, d, regressor, now) ==
    LET model_data == _train_model(d, regressor, now)
        um1 == IF model_data # None THEN [um EXCEPT ![person_id] = model_data] ELSE um
    IN [user_models |-> um1, model_data |-> um1[person_id], trained |-> TRUE,
        stamped |-> model_data # None]

\* mutant: a failed training is remembered, and the lookup does not train again
GetOrTrainMemoized(um, person_id, d, regressor, now) ==
    IF um[person_id] = None
    THEN LET model_data == _train_model(d, regressor, now)
             um1 == [um EXCEPT ![person_id] = IF model_data # None THEN model_data
                                             ELSE [none |-> TRUE, failed |-> TRUE]]
         IN [user_models |-> um1, model_data |-> model_data, trained |-> TRUE,
             stamped |-> model_data # None]
    ELSE [user_models |-> um,
          model_data |-> IF "failed" \in DOMAIN um[person_id] THEN None
                         ELSE um[person_id],
          trained |-> FALSE, stamped |-> FALSE]

\* _get_or_train_model(person_id) with d = _get_user_transactions(person_id):
\* the dict afterwards, the bundle returned, whether _train_model ran and
\* whether it read the clock (returned a bundle)
_get_or_train_model(um, person_id, d, regressor, now) ==
    IF um[person_id] = None
    THEN LET model_data == _train_model(d, regressor, now)
             um1 == IF model_data # None THEN [um EXCEPT ![person_id] = model_data] ELSE um
         IN [user_models |-> um1, model_data |-> um1[person_id], trained |-> TRUE,
             stamped |-> model_data # None]
    ELSE [user_models |-> um, model_data |-> um[person_id], trained |-> FALSE,
          stamped |-> FALSE]

\* mutant: the retrain keeps the cached bundle when the training fails
RetrainKeepOnFailure(um, person_id, d, regressor, now) ==
    LET model_data == _train_model(d, regressor, now)
    IN IF model_data # None
       THEN [user_models |-> [um EXCEPT ![person_id] = model_data],
             result |-> [success |-> TRUE, metrics |-> model_data.metrics],
             trained |-> TRUE, stamped |-> TRUE]
       ELSE [user_models |-> um,
             result |-> [success |-> FALSE, current_count |-> CountRows(d),
                         required |-> MIN_TRANSACTIONS_FOR_ML],
             trained |-> TRUE, stamped |-> FALSE]

\* mutant: the retrain empties the whole dict before it trains
RetrainClearAll(um, person_id, d, regressor, now) ==
    LET um0 == [p \in Persons |-> None]
        model_data == _train_model(d, regressor, now)
    IN IF model_data # None
       THEN [user_models |-> [um0 EXCEPT ![person_id] = model_data],
             result |-> [success |-> TRUE, metrics |-> model_data.metrics],
             trained |-> TRUE, stamped |-> TRUE]
       ELSE [user_models |-> um0,
             result |-> [success |-> FALSE, current_count |-> CountRows(d),
                         required |-> MIN_TRANSACTIONS_FOR_ML],
             trained |-> TRUE, stamped |-> FALSE]

\* retrain_user_model(person_id): the dict afterwards and the dict returned
retrain_user_model(um, person_id, d, regressor, now) ==
    LET um0 == [um EXCEPT ![person_id] = None]                 \* del
        model_data == _train_model(d, regressor, now)
    IN IF model_data # None
       THEN [user_models |-> [um0 EXCEPT ![person_id] = model_data],
             result |-> [success |-> TRUE, metrics |-> model_data.metrics],
             trained |-> TRUE, stamped |-> TRUE]
       ELSE [user_models |-> um0,
             result |-> [success |-> FALSE, current_count |-> CountRows(d),
                         required |-> MIN_TRANSACTIONS_FOR_ML],
             trained |-> TRUE, stamped |-> FALSE]

(***************************************************************************)
(* UserMLPredictor._predict_with_ml, _predict_with_statistics,             *)
(* predict_for_month                                                       *)
(***************************************************************************)
Max(a, b) == IF a >= b THEN a ELSE b

\* round(n / d, 2) in cents: the nearest integer, a half to the even one
RoundDiv(n, d) ==
    LET q == n \div d
        r == n % d
    IN IF 2 * r < d THEN q
       ELSE IF 2 * r > d THEN q + 1
       ELSE IF q % 2 = 0 THEN q ELSE q + 1

\* the lag state _predict_with_ml reads for the category: the bundle's
\* latest_lags row, a missing lag replaced by cat_avg (kept to the cent)
CachedLags(model_data, category_name) ==
    LET cat_avg == model_data.cat_stats[category_name].cat_avg
        has_row == category_name \in DOMAIN model_data.latest_lags
        row == model_data.latest_lags[category_name]
        avg == RoundDiv(cat_avg.num, cat_avg.den)
    IN [lag_1 |-> IF has_row /\ notna(row.lag_1) THEN row.lag_1[1] ELSE avg,
        lag_2 |-> IF has_row /\ notna(row.lag_2) THEN row.lag_2[1] ELSE avg,
        lag_3 |-> IF has_row /\ notna(row.lag_3) THEN row.lag_3[1] ELSE avg,
        pct_change |-> IF has_row THEN row.pct_change ELSE FracOfInt(0),
        cv_sq |-> IF has_row THEN row.cv_sq ELSE FracOfInt(0)]

\* the row X that _predict_with_ml hands to model.predict, from the lag state g
FeatureRow(model_data, category_name, month, g) ==
    LET cat_avg == model_data.cat_stats[category_name].cat_avg
    IN [category_encoded |-> Cardinality({c \in model_data.categories : c < category_name}),
        month_num |-> month,
        lag_1 |-> g.lag_1, lag_2 |-> g.lag_2, lag_3 |-> g.lag_3,
        pct_change |-> Clip(g.pct_change, -2, 2),
        trend_direction |-> IF g.lag_2 # 0 THEN Sign(g.lag_1 - g.lag_2) ELSE 0,
        cv_sq |-> Clip(g.cv_sq, 0, 9),
        relative_to_avg |-> IF cat_avg.num > 0
                            THEN Clip(Frac(g.lag_1 * cat_avg.den, cat_avg.num), 0, 5)
                            ELSE FracOfInt(1)]

\* the row X of a call of _predict_with_ml that reaches model.predict
FeatureVector(model_data, category_name, month) ==
    FeatureRow(model_data, category_name, month, CachedLags(model_data, category_name))

\* the confidence graded from cv: cv < 0.3, cv < 0.6
ConfidenceOf(cv_sq) ==
    IF FracLt(cv_sq, Frac(9, 100)) THEN "high"
    ELSE IF FracLt(cv_sq, Frac(36, 100)) THEN "medium"
    ELSE "low"

\* mutant: no short-circuit, the model always answers
ModelAlways(model_data, category_name, g, X) ==
    [amount |-> Max(0, Predict(model_data.model, X)),
     confidence |-> ConfidenceOf(X.cv_sq), short_circuit |-> FALSE]

\* mutant: the model's output is returned without max(0, ...)
ModelUnclipped(model_data, category_name, g, X) ==
    IF \/ FracLt(model_data.cat_stats[category_name].cat_std_sq, Frac(1, 100))
       \/ (g.lag_1 = g.lag_2 /\ g.lag_2 = g.lag_3)
    THEN [amount |-> g.lag_1, confidence |-> "high", short_circuit |-> TRUE]
    ELSE [amount |-> Predict(model_data.model, X),
          confidence |-> ConfidenceOf(X.cv_sq), short_circuit |-> FALSE]

\* the two returns of _predict_with_ml, given the lag state g and the row X
ShortCircuitOrModel(model_data, category_name, g, X) ==
    \* cat_std < 1e-3 (a tenth of a cent), or lags equal to within 1e-6
    IF \/ FracLt(model_data.cat_stats[category_name].cat_std_sq, Frac(1, 100))
       \/ (g.lag_1 = g.lag_2 /\ g.lag_2 = g.lag_3)
    THEN [amount |-> Max(0, g.lag_1), confidence |-> "high", short_circuit |-> TRUE]
    ELSE [amount |-> Max(0, Predict(model_data.model, X)),
          confidence |-> ConfidenceOf(X.cv_sq), short_circuit |-> FALSE]

\* _predict_with_ml: None, or the pair (amount, confidence); short_circuit
\* tells which return statement produced it
_predict_with_ml(model_data, category_name, month) ==
    IF category_name \notin model_data.categories THEN None
    ELSE IF category_name \notin DOMAIN model_data.cat_stats THEN None
    ELSE ShortCircuitOrModel(model_data, category_name,
                             CachedLags(model_data, category_name),
                             FeatureVector(model_data, category_name, month))

\* the last (up to) n rows of a frame: DataFrame.tail(n)
TailRows(rows, n) == SubSeq(rows, Max(1, Len(rows) - n + 1), Len(rows))

\* mutant: the three most recent totals are tried before the calendar month
StatisticsRecentFirst(d, category_name, month) ==
    IF d = <<>>
    THEN [estimated_amount |-> 0, method |-> "no_data", confidence |-> "none",
          has_data |-> FALSE]
    ELSE
    LET cat_df == SelectSeq(d, LAMBDA r : r.category = category_name)
    IN IF cat_df = <<>>
       THEN [estimated_amount |-> 0, method |-> "no_category_data", confidence |-> "none",
             has_data |-> FALSE]
       ELSE
       LET totals == GroupByMonth(cat_df)
           month_data == SelectSeq(totals, LAMBDA r : r.month = month)
           recent == TailRows(totals, 3)
           picked == IF Len(totals) >= 3
                     THEN [rows |-> recent, method |-> "recent_average", confidence |-> "low"]
                     ELSE IF Len(month_data) >= 2
                     THEN [rows |-> month_data, method |-> "monthly_average", confidence |-> "medium"]
                     ELSE [rows |-> totals, method |-> "category_average", confidence |-> "low"]
       IN [estimated_amount |-> RoundDiv(SumInts(AmountsOf(picked.rows)), Len(picked.rows)),
           method |-> picked.method, confidence |-> picked.confidence,
           has_data |-> TRUE, transaction_count |-> CountRows(cat_df)]

\* _predict_with_statistics on d = _get_user_transactions(person_id)
_predict_with_statistics(d, category_name, month) ==
    IF d = <<>>
    THEN [estimated_amount |-> 0, method |-> "no_data", confidence |-> "none",
          has_data |-> FALSE]
    ELSE
    LET cat_df == SelectSeq(d, LAMBDA r : r.category = category_name)
    IN IF cat_df = <<>>
       THEN [estimated_amount |-> 0, method |-> "no_category_data", confidence |-> "none",
             has_data |-> FALSE]
       ELSE
       LET \* cat_df.groupby(["year", "month"])["amount"].sum(), in date order
           totals == GroupByMonth(cat_df)
           month_data == SelectSeq(totals, LAMBDA r : r.month = month)
           recent == TailRows(totals, 3)
           picked == IF Len(month_data) >= 2
                     THEN [rows |-> month_data, method |-> "monthly_average", confidence |-> "medium"]
                     ELSE IF Len(totals) >= 3
                     THEN [rows |-> recent, method |-> "recent_average", confidence |-> "low"]
                     ELSE [rows |-> totals, method |-> "category_average", confidence |-> "low"]
       IN [estimated_amount |-> RoundDiv(SumInts(AmountsOf(picked.rows)), Len(picked.rows)),
           method |-> picked.method, confidence |-> picked.confidence,
           has_data |-> TRUE, transaction_count |-> CountRows(cat_df)]

\* predict_for_month once _predict_with_ml has returned result
MlOrStatistics(result, model_data, d, category_name, month) ==
    IF result # None
    THEN [estimated_amount |-> result.amount, method |-> "random_forest",
          confidence |-> result.confidence, has_data |-> TRUE, is_ml |-> TRUE,
          model_metrics |-> model_data.metrics]
    ELSE [is_ml |-> FALSE] @@ _predict_with_statistics(d, category_name, month)

\* mutant: the statistical answer is passed off as the model's
PredictionAlwaysMl(model_data, d, category_name, month) ==
    [is_ml |-> TRUE] @@ _predict_with_statistics(d, category_name, month)

\* what predict_for_month returns, given the bundle model_data that
\* _get_or_train_model returned
PredictionFor(model_data, d, category_name, month) ==
    IF model_data # None
    THEN MlOrStatistics(_predict_with_ml(model_data, category_name, month),
                        model_data, d, category_name, month)
    ELSE [is_ml |-> FALSE] @@ _predict_with_statistics(d, category_name, month)


(***************************************************************************)
(* UserMLPredictor.predict_next_months, predict_all_categories,            *)
(* get_category_stats, get_user_summary, get_feature_importance            *)
(***************************************************************************)
\* the lag state predict_next_months prepares before its loop
InitialLags(model_data, category_name) ==
    IF model_data # None /\ category_name \in model_data.categories
    THEN IF category_name \in DOMAIN model_data.latest_lags
         THEN LET row == model_data.latest_lags[category_name]
              IN [lag_1 |-> fillna(row.lag_1, 0), lag_2 |-> fillna(row.lag_2, 0),
                  lag_3 |-> fillna(row.lag_3, 0), pct_change |-> row.pct_change,
                  cv_sq |-> row.cv_sq]
         ELSE IF category_name \in DOMAIN model_data.cat_stats
         THEN LET avg == RoundDiv(model_data.cat_stats[category_name].cat_avg.num,
                                  model_data.cat_stats[category_name].cat_avg.den)
              IN [lag_1 |-> avg, lag_2 |-> avg, lag_3 |-> avg,
                  pct_change |-> FracOfInt(0), cv_sq |-> FracOfInt(0)]
         ELSE [lag_1 |-> 0, lag_2 |-> 0, lag_3 |-> 0,
               pct_change |-> FracOfInt(0), cv_sq |-> FracOfInt(0)]
    ELSE [lag_1 |-> 0, lag_2 |-> 0, lag_3 |-> 0,
          pct_change |-> FracOfInt(0), cv_sq |-> FracOfInt(0)]

\* an exception raised by a call
Raised(e) == [error |-> e]
IsRaised(x) == "error" \in DOMAIN x

\* mutant: the months are counted from the month after next
FutureMonthAhead(current_date, i) == ((current_date.month + i) % 12) + 1

\* mutant: the year of the current date at every step
FutureYearNoCarry(current_date, i) == current_date.year

\* the month and the year of the i-th month after current_date
FutureMonth(current_date, i) == ((current_date.month - 1 + i) % 12) + 1
FutureYear(current_date, i) == current_date.year + ((current_date.month - 1 + i) \div 12)

\* mutant: the older lags are not shifted
NextLagsUnshifted(current_lags, pred_val) ==
    [lag_1 |-> pred_val, lag_2 |-> current_lags.lag_2, lag_3 |-> current_lags.lag_3,
     pct_change |-> IF current_lags.lag_1 > 0
                    THEN Frac(pred_val - current_lags.lag_1, current_lags.lag_1)
                    ELSE FracOfInt(0),
     cv_sq |-> current_lags.cv_sq]

\* the lag state after a model prediction pred_val
NextLags(current_lags, pred_val) ==
    [lag_1 |-> pred_val, lag_2 |-> current_lags.lag_1, lag_3 |-> current_lags.lag_2,
     pct_change |-> IF current_lags.lag_1 > 0
                    THEN Frac(pred_val - current_lags.lag_1, current_lags.lag_1)
                    ELSE FracOfInt(0),
     cv_sq |-> current_lags.cv_sq]

\* predictions.append(point), unless a later iteration raises
AppendPoint(point, rest) ==
    IF rest # <<>> /\ IsRaised(rest[Len(rest)]) THEN rest ELSE <<point>> \o rest

\* the iterations i..months_ahead of the loop of predict_next_months: the
\* points appended, or <<Raised("TypeError")>> when the unpacking of a None raises
RECURSIVE ForecastLoop(_, _, _, _, _, _, _)
RECURSIVE MlIteration(_, _, _, _, _, _, _, _)
RECURSIVE StatsIteration(_, _, _, _, _, _, _, _)

\* an iteration of the model branch: ml is what _predict_with_ml returned
MlIteration(i, months_ahead, current_lags, model_data, d, category_name, current_date, ml) ==
    IF ml = None THEN <<Raised("TypeError")>>
    ELSE AppendPoint([month |-> FutureMonth(current_date, i),
                      year |-> FutureYear(current_date, i),
                      estimated_amount |-> ml.amount,
                      method |-> "gradient_boosting_recursive",
                      confidence |-> ml.confidence, has_data |-> TRUE, is_ml |-> TRUE],
                     ForecastLoop(i + 1, months_ahead, NextLags(current_lags, ml.amount),
                                  model_data, d, category_name, current_date))

\* an iteration of the fallback branch: stats is what _predict_with_statistics returned
StatsIteration(i, months_ahead, current_lags, model_data, d, category_name, current_date, stats) ==
    AppendPoint([month |-> FutureMonth(current_date, i),
                 year |-> FutureYear(current_date, i),
                 estimated_amount |-> stats.estimated_amount,
                 method |-> stats.method, confidence |-> stats.confidence,
                 has_data |-> stats.has_data, is_ml |-> FALSE],
                ForecastLoop(i + 1, months_ahead, current_lags, model_data, d,
                             category_name, current_date))

ForecastLoop(i, months_ahead, current_lags, model_data, d, category_name, current_date) ==
    IF i > Max(0, months_ahead) THEN <<>>
    ELSE IF model_data # None /\ category_name \in model_data.categories
    THEN MlIteration(i, months_ahead, current_lags, model_data, d, category_name, current_date,
                     _predict_with_ml(model_data, category_name, FutureMonth(current_date, i)))
    ELSE StatsIteration(i, months_ahead, current_lags, model_data, d, category_name,
                        current_date,
                        _predict_with_statistics(d, category_name, FutureMonth(current_date, i)))

\* what predict_next_months returns, given the bundle model_data that
\* _get_or_train_model returned and current_date = datetime.now()
ForecastFor(model_data, d, category_name, months_ahead, current_date) ==
    ForecastLoop(1, months_ahead, InitialLags(model_data, category_name),
                 model_data, d, category_name, current_date)

\* the expense categories of the categories table
Categories == {1, 2, 3}

\* the sort key of predict_all_categories: (not is_ml, not has_data, -estimated_amount)
PredLeq(a, b) ==
    LET ka == <<IF a.is_ml THEN 0 ELSE 1, IF a.has_data THEN 0 ELSE 1, 0 - a.estimated_amount>>
        kb == <<IF b.is_ml THEN 0 ELSE 1, IF b.has_data THEN 0 ELSE 1, 0 - b.estimated_amount>>
    IN \/ ka[1] < kb[1]
       \/ ka[1] = kb[1] /\ ka[2] < kb[2]
       \/ ka[1] = kb[1] /\ ka[2] = kb[2] /\ ka[3] <= kb[3]

\* mutant: the list is left in the order of the categories table
Unsorted(s) == s

\* list.sort(key=...) (stable)
RECURSIVE InsertPred(_, _)
InsertPred(r, s) ==
    IF s = <<>> \/ PredLeq(s[Len(s)], r) THEN Append(s, r)
    ELSE Append(InsertPred(r, SubSeq(s, 1, Len(s) - 1)), s[Len(s)])
RECURSIVE SortPreds(_)
SortPreds(s) ==
    IF s = <<>> THEN <<>>
    ELSE InsertPred(s[Len(s)], SortPreds(SubSeq(s, 1, Len(s) - 1)))

\* the entry built from the forecast point q
EntryOf(base, q) ==
    base @@ [estimated_amount |-> q.estimated_amount, method |-> q.method,
             confidence |-> q.confidence, has_data |-> q.has_data, is_ml |-> q.is_ml]

\* next((p for p in future_sequence if ...), None) and the entry made of it
TargetEntry(base, hits) ==
    IF hits # <<>> THEN EntryOf(base, hits[1])
    ELSE base @@ [estimated_amount |-> 0, method |-> "error",
                  confidence |-> "none", has_data |-> FALSE, is_ml |-> FALSE]

\* the entry for a month ahead, from the sequence predict_next_months returned
FutureEntry(base, future_sequence, month, year) ==
    IF future_sequence # <<>> /\ IsRaised(future_sequence[1]) THEN future_sequence[1]
    ELSE TargetEntry(base, SelectSeq(future_sequence,
                                     LAMBDA q : q.month = month /\ q.year = year))

\* mutant: the current month is forecast by predict_next_months too
CategoryPredictionAhead(model_data, d, cat_name, month, year, now) ==
    IF (year - now.year) * 12 + (month - now.month) < 0
    THEN [category_id |-> cat_name, category |-> cat_name]
         @@ PredictionFor(model_data, d, cat_name, month)
    ELSE FutureEntry([category_id |-> cat_name, category |-> cat_name],
                     ForecastFor(model_data, d, cat_name,
                                 (year - now.year) * 12 + (month - now.month), now),
                     month, year)

\* the entry of predict_all_categories for one category
CategoryPrediction(model_data, d, cat_name, month, year, now) ==
    IF (year - now.year) * 12 + (month - now.month) <= 0
    THEN [category_id |-> cat_name, category |-> cat_name]
         @@ PredictionFor(model_data, d, cat_name, month)
    ELSE FutureEntry([category_id |-> cat_name, category |-> cat_name],
                     ForecastFor(model_data, d, cat_name,
                                 (year - now.year) * 12 + (month - now.month), now),
                     month, year)

\* predictions.sort(...), unless the loop raised
SortedPredictions(preds) ==
    IF \E k \in DOMAIN preds : IsRaised(preds[k])
    THEN <<Raised("TypeError")>>
    ELSE SortPreds(preds)

\* what predict_all_categories returns, given the bundle of the person
AllCategoriesFor(model_data, d, month, year, now) ==
    SortedPredictions([k \in 1..Cardinality(Categories) |->
        CategoryPrediction(model_data, d, SortedInts(Categories)[k], month, year, now)])

\* mutant: no early return for an empty frame
SummaryNoEarlyReturn(model_data, d) ==
    [has_data |-> TRUE, total_transactions |-> CountRows(d),
     total_spent |-> SumAmount(d),
     uses_ml |-> model_data # None, ml_ready |-> model_data # None,
     transactions_needed |-> IF model_data = None
                             THEN Max(0, MIN_TRANSACTIONS_FOR_ML - CountRows(d))
                             ELSE 0]

\* get_user_summary, given the bundle (None when the frame is empty: the
\* method returns before it looks a model up); the per-category list is
\* left to get_category_stats
SummaryFor(model_data, d) ==
    IF d = <<>>
    THEN [has_data |-> FALSE, total_transactions |-> 0, total_spent |-> 0,
          monthly_average |-> 0, uses_ml |-> FALSE, ml_ready |-> FALSE,
          categories |-> <<>>]
    ELSE [has_data |-> TRUE, total_transactions |-> CountRows(d),
          total_spent |-> SumAmount(d),
          uses_ml |-> model_data # None, ml_ready |-> model_data # None,
          transactions_needed |-> IF model_data = None
                                  THEN Max(0, MIN_TRANSACTIONS_FOR_ML - CountRows(d))
                                  ELSE 0]


(***************************************************************************)
(* The transactions table (crud.py) as _get_user_transactions reads it     *)
(***************************************************************************)
\* crud.create_transaction: one more row, placed by ORDER BY t.date
InsertTx(rows, c, t, a) ==
    LET before == SelectSeq(rows, LAMBDA r : DateLeq(RowDate(r), t))
        after == SelectSeq(rows, LAMBDA r : ~DateLeq(RowDate(r), t))
    IN before \o <<[category |-> c, year |-> t.year, month |-> t.month,
                    amount |-> a, copies |-> 1]>> \o after

\* crud.delete_transaction: one transaction of the i-th row less
DeleteTx(rows, i) ==
    IF rows[i].copies > 1
    THEN [rows EXCEPT ![i].copies = @ - 1]
    ELSE SubSeq(rows, 1, i - 1) \o SubSeq(rows, i + 1, Len(rows))

\* crud.update_transaction: one transaction of the i-th row gets category c
\* and amount a (its date is kept)
UpdateTx(rows, i, c, a) ==
    InsertTx(DeleteTx(rows, i), c, RowDate(rows[i]), a)

(***************************************************************************)
(* Bounds and inputs of the lifecycle specifications                       *)
(***************************************************************************)
MaxClock == 2        \* most trainings that produce a bundle
MaxStoreOps == 1     \* most writes to the transactions table
HistFirstYear == 2023   \* the histories start in
HistFirstMonth == 9     \* September 2023

\* the calendar month of datetime.now() during the run
Today == Date(2024, 3)

\* a history of T months with one row per month for each of categories 1
\* and 2: s1, s2 the amounts and k1, k2 the numbers of transactions
History(T, s1, k1, s2, k2) ==
    [i \in 1..(2 * T) |->
        LET j == (i + 1) \div 2
            t == MonthAfter(Date(HistFirstYear, ((HistFirstMonth - 1) % 12) + 1), j - 1)
        IN [category |-> IF i % 2 = 1 THEN 1 ELSE 2, year |-> t.year, month |-> t.month,
            amount |-> IF i % 2 = 1 THEN s1[j] ELSE s2[j],
            copies |-> IF i % 2 = 1 THEN k1[j] ELSE k2[j]]]

\* no transaction
H_empty == <<>>
\* 30 transactions over 6 months: category 1 varies, category 2 spends 10
\* in each of five months and 6 in the last
H_ok == History(6, <<10, 20, 10, 30, 20, 40>>, <<3, 3, 3, 3, 3, 3>>,
                   <<5, 5, 5, 5, 5, 3>>, <<2, 2, 2, 2, 2, 2>>)
\* the same with one transaction less: 29 transactions over 6 months
H_29 == History(6, <<10, 20, 10, 30, 20, 40>>, <<2, 3, 3, 3, 3, 3>>,
                   <<5, 5, 5, 5, 5, 3>>, <<2, 2, 2, 2, 2, 2>>)
\* 30 transactions over 6 months: category 2 spends the same every month
H_flat == History(6, <<10, 20, 10, 30, 20, 40>>, <<3, 3, 3, 3, 3, 3>>,
                     <<5, 5, 5, 5, 5, 5>>, <<2, 2, 2, 2, 2, 2>>)

Histories1 == {H_29, H_ok}
Histories2 == {H_flat}

\* the persons who write to the transactions table during the run
Writers == {1}
TxCategories == {3}
TxDates == {Date(2024, 3)}
TxAmounts == {10}
ForecastCategories == {1, 2, 3}
SequenceCategories == {1, 3}
StatsCategories == {1}
ForecastMonths == {3}
MonthsAhead == {2}
TargetMonths == {Date(2024, 3), Date(2024, 5)}


\* what get_category_stats returns on d = _get_user_transactions(person_id)
CategoryStatsFor(d, category_name) ==
    LET cat_df == SelectSeq(d, LAMBDA r : r.category = category_name)
    IN IF cat_df = <<>>
       THEN [has_data |-> FALSE, count |-> 0, total |-> 0, average |-> 0,
             min |-> 0, max |-> 0, trend_direction |-> "none"]
       ELSE
       LET totals == AmountsOf(GroupByMonth(cat_df))
           recent == SubSeq(totals, Max(1, Len(totals) - 11), Len(totals))
           half == Len(recent) \div 2
           first_half == SumInts(SubSeq(recent, 1, half))
           second_half == SumInts(SubSeq(recent, Len(recent) - half + 1, Len(recent)))
           amounts == {cat_df[i].amount : i \in DOMAIN cat_df}
       IN [has_data |-> TRUE, count |-> CountRows(cat_df), total |-> SumAmount(cat_df),
           average |-> RoundDiv(SumAmount(cat_df), CountRows(cat_df)),
           monthly_average |-> RoundDiv(SumInts(totals), Len(totals)),
           min |-> CHOOSE a \in amounts : \A b \in amounts : a <= b,
           max |-> CHOOSE a \in amounts : \A b \in amounts : a >= b,
           trend_direction |->
               IF Len(totals) < 6 THEN "insufficient_data"
               ELSE IF first_half <= 0 THEN "stable"
               ELSE IF 100 * (second_half - first_half) > 5 * first_half THEN "up"
               ELSE IF 100 * (second_half - first_half) < 0 - 5 * first_half THEN "down"
               ELSE "stable"]

(***************************************************************************)
(* Spec: the requests of the two routers, each handled to completion       *)
(***************************************************************************)
Threads == {"worker1", "worker2", "loop"}
Idle == [at |-> "idle"]

Init ==
    /\ store \in {st \in [Persons -> Histories1 \cup Histories2] :
                      st[1] \in Histories1 /\ st[2] \in Histories2}
    /\ predictor = None
    /\ ml_predictor = None
    /\ clock = 0
    /\ learner \in Regressors
    /\ nops = 0
    /\ pc = [t \in Threads |-> Idle]
    /\ last = [op |-> "start"]
    /\ NoAggCall

\* a call of a method of get_predictor() that looks the model of person p up:
\* g is what _get_or_train_model did, and l describes the call
PredictorCall(g, l) ==
    /\ g.stamped => clock < MaxClock
    /\ predictor' = [user_models |-> g.user_models]
    /\ clock' = IF g.stamped THEN clock + 1 ELSE clock
    /\ last' = l
    /\ UNCHANGED <<store, ml_predictor, learner, nops, pc>>
    /\ UNCHANGED aggvars

\* _get_or_train_model(p) on the singleton of routers/predictions.py
Lookup(p) ==
    _get_or_train_model(GetSingleton(predictor).user_models, p, store[p], learner, clock)

\* GET /predictions/yearly: predict_for_month(person_id, category, month)
PredictForMonth(p, c, m) ==
    \E g \in {Lookup(p)} :
       PredictorCall(g, [op |-> "predict_for_month", via |-> "predictor", person |-> p,
                         category |-> c, month |-> m, trained |-> g.trained,
                         model_data |-> g.model_data,
                         ret |-> PredictionFor(g.model_data, store[p], c, m)])

\* GET /predictions/forecast: predict_next_months(person_id, category, months_ahead)
PredictNextMonths(p, c, n) ==
    \E g \in {Lookup(p)} :
       PredictorCall(g, [op |-> "predict_next_months", via |-> "predictor", person |-> p,
                         category |-> c, month |-> n, trained |-> g.trained,
                         model_data |-> g.model_data,
                         ret |-> ForecastFor(g.model_data, store[p], c, n, Today)])

\* GET /predictions/forecast-all: predict_all_categories(person_id, month, year);
\* the first category looks the model up (and trains), the others find what
\* it left
PredictAllCategories(p, t) ==
    \E g \in {Lookup(p)} :
       PredictorCall(g, [op |-> "predict_all_categories", via |-> "predictor", person |-> p,
                         category |-> 0, month |-> t.month, year |-> t.year,
                         trained |-> g.trained, model_data |-> g.model_data,
                         ret |-> AllCategoriesFor(g.model_data, store[p], t.month, t.year, Today)])

\* GET /predictions/feature-importance: get_feature_importance(person_id),
\* which is _get_or_train_model(person_id) and a projection of its bundle
GetFeatureImportance(p) ==
    \E g \in {Lookup(p)} :
       PredictorCall(g, [op |-> "_get_or_train_model", via |-> "predictor", person |-> p,
                         category |-> 0, month |-> 0, trained |-> g.trained,
                         model_data |-> g.model_data,
                         ret |-> g.model_data # None])

\* GET /predictions/summary: get_user_summary(person_id)
GetUserSummary(p) ==
    \E g \in {IF store[p] = <<>>
               THEN [user_models |-> GetSingleton(predictor).user_models,
                     model_data |-> None, trained |-> FALSE, stamped |-> FALSE]
               ELSE Lookup(p)} :
       PredictorCall(g, [op |-> "get_user_summary", via |-> "predictor", person |-> p,
                         category |-> 0, month |-> 0, trained |-> g.trained,
                         model_data |-> g.model_data,
                         ret |-> SummaryFor(g.model_data, store[p])])

\* GET /predictions/category-stats: get_category_stats(person_id, category)
GetCategoryStats(p, c) ==
    LET g == [user_models |-> GetSingleton(predictor).user_models, model_data |-> None,
              trained |-> FALSE, stamped |-> FALSE]
    IN PredictorCall(g, [op |-> "get_category_stats", via |-> "predictor", person |-> p,
                         category |-> c, month |-> 0, trained |-> FALSE,
                         model_data |-> None,
                         ret |-> CategoryStatsFor(store[p], c)])

\* POST /predictions/retrain: retrain_user_model(person_id)
Retrain(p) ==
    \E r \in {retrain_user_model(GetSingleton(predictor).user_models, p, store[p],
                                  learner, clock)} :
       /\ r.stamped => clock < MaxClock
       /\ predictor' = [user_models |-> r.user_models]
       /\ clock' = IF r.stamped THEN clock + 1 ELSE clock
       /\ last' = [op |-> "retrain_user_model", via |-> "predictor", person |-> p,
                   category |-> 0, month |-> 0, trained |-> r.trained,
                   model_data |-> r.user_models[p], ret |-> r.result,
                   before |-> GetSingleton(predictor).user_models[p]]
       /\ UNCHANGED <<store, ml_predictor, learner, nops, pc>>
       /\ UNCHANGED aggvars

\* POST /transactions: crud.create_transaction, then
\* get_ml_predictor().retrain_user_model(person_id)
AddTransaction(p, c, t, a) ==
    /\ nops < MaxStoreOps
    /\ \E rows \in {InsertTx(store[p], c, t, a)} :
       \E r \in {retrain_user_model(GetSingleton(ml_predictor).user_models, p, rows,
                                     learner, clock)} :
       /\ r.stamped => clock < MaxClock
       /\ store' = [store EXCEPT ![p] = rows]
       /\ nops' = nops + 1
       /\ ml_predictor' = [user_models |-> r.user_models]
       /\ clock' = IF r.stamped THEN clock + 1 ELSE clock
       /\ last' = [op |-> "add_transaction", via |-> "ml_predictor", person |-> p,
                   category |-> c, month |-> t.month, trained |-> r.trained,
                   model_data |-> r.user_models[p], ret |-> r.result,
                   before |-> GetSingleton(ml_predictor).user_models[p]]
       /\ UNCHANGED <<predictor, learner, pc>>
       /\ UNCHANGED aggvars

\* PUT /transactions/{tx_id}: crud.update_transaction, no training
UpdateTransaction(p, i, c, a) ==
    /\ nops < MaxStoreOps
    /\ i \in DOMAIN store[p]
    /\ store' = [store EXCEPT ![p] = UpdateTx(store[p], i, c, a)]
    /\ nops' = nops + 1
    /\ last' = [op |-> "update_transaction", via |-> "store", person |-> p,
                category |-> c, month |-> 0, trained |-> FALSE,
                model_data |-> None, ret |-> TRUE]
    /\ UNCHANGED <<predictor, ml_predictor, clock, learner, pc>>
    /\ UNCHANGED aggvars

\* DELETE /transactions/{tx_id}: crud.delete_transaction, no training
DeleteTransaction(p, i) ==
    /\ nops < MaxStoreOps
    /\ i \in DOMAIN store[p]
    /\ store' = [store EXCEPT ![p] = DeleteTx(store[p], i)]
    /\ nops' = nops + 1
    /\ last' = [op |-> "delete_transaction", via |-> "store", person |-> p,
                category |-> 0, month |-> 0, trained |-> FALSE,
                model_data |-> None, ret |-> TRUE]
    /\ UNCHANGED <<predictor, ml_predictor, clock, learner, pc>>
    /\ UNCHANGED aggvars

\* the transaction a request can name: the newest
TxTargets(p) == {Len(store[p])}

Next ==
    \/ \E p \in Persons, c \in ForecastCategories, m \in ForecastMonths : PredictForMonth(p, c, m)
    \/ \E p \in Persons, c \in SequenceCategories, n \in MonthsAhead : PredictNextMonths(p, c, n)
    \/ \E p \in Persons, t \in TargetMonths : PredictAllCategories(p, t)
    \/ \E p \in Persons : GetFeatureImportance(p)
    \/ \E p \in Persons : GetUserSummary(p)
    \/ \E p \in Persons, c \in StatsCategories : GetCategoryStats(p, c)
    \/ \E p \in Persons : Retrain(p)
    \/ \E p \in Writers, c \in TxCategories, t \in TxDates, a \in TxAmounts : AddTransaction(p, c, t, a)
    \/ \E p \in Writers : \E i \in TxTargets(p), c \in TxCategories, a \in TxAmounts : UpdateTransaction(p, i, c, a)
    \/ \E p \in Writers : \E i \in TxTargets(p) : DeleteTransaction(p, i)

Spec == Init /\ [][Next]_vars


(***************************************************************************)
(* Claims about the cache of bundles (checked under Spec)                  *)
(***************************************************************************)
\* _user_models of a module's predictor: empty while the module has none
CacheOf(singleton) == GetSingleton(singleton).user_models

\* the calls that end in retrain_user_model, and those that begin with
\* _get_or_train_model
RetrainOps == {"retrain_user_model", "add_transaction"}
LookupOps == {"predict_for_month", "predict_next_months", "predict_all_categories",
              "_get_or_train_model"}

\* C3: a bundle cached for person p stays the identical bundle (same
\* trained_at, no training) through every lookup, forecast, summary and
\* statistics call and through every change of p's transactions; only
\* retrain_user_model(p) on that predictor removes or replaces it, and a
\* lookup that finds a bundle returns that very bundle.
C3_BundlePersists ==
    [][\A p \in Persons :
          /\ (CacheOf(predictor)[p] # None /\ CacheOf(predictor')[p] # CacheOf(predictor)[p])
                => (last'.op = "retrain_user_model" /\ last'.person = p)
          /\ (CacheOf(ml_predictor)[p] # None
                /\ CacheOf(ml_predictor')[p] # CacheOf(ml_predictor)[p])
                => (last'.op = "add_transaction" /\ last'.person = p)
          /\ (last'.op \in LookupOps /\ last'.person = p /\ CacheOf(predictor)[p] # None)
                => (/\ last'.model_data = CacheOf(predictor)[p]
                    /\ ~last'.trained
                    /\ last'.model_data.trained_at = CacheOf(predictor)[p].trained_at)
      ]_vars

\* a lookup answered from the cache although the person's transactions
\* have changed since the bundle was trained
C3_Witness ==
    /\ last.op = "_get_or_train_model"
    /\ ~last.trained
    /\ last.model_data # None
    /\ CacheOf(predictor)[last.person] = last.model_data
    /\ last.model_data.metrics.training_samples # CountRows(store[last.person])

\* C4: the process holds at most one bundle per person: the forecast and
\* summary endpoints (get_predictor) and the auto-retrain of add_transaction
\* (get_ml_predictor) work on one and the same cache, so no person has a
\* bundle in two caches.
C4_OneCachePerPerson ==
    \A p \in Persons :
        ~(CacheOf(predictor)[p] # None /\ CacheOf(ml_predictor)[p] # None)

\* C6: when retrain_user_model(p) returns, the cache holds for p either a
\* bundle newly trained on p's current transactions (success) or nothing
\* (failure, with current_count and required); the bundle cached before the
\* call is not cached after it.
C6_RetrainDiscards ==
    last.op \in RetrainOps =>
        LET p == last.person
            c == CacheOf(IF last.via = "predictor" THEN predictor ELSE ml_predictor)[p]
        IN /\ last.trained
           /\ last.before # None => c # last.before
           /\ IF last.ret.success
              THEN /\ c # None
                   /\ c.trained_at = clock - 1
                   /\ c = _train_model(store[p], learner, clock - 1)
                   /\ last.ret.metrics = c.metrics
              ELSE /\ c = None
                   /\ last.ret.current_count = CountRows(store[p])
                   /\ last.ret.required = MIN_TRANSACTIONS_FOR_ML

\* a retrain that found a bundle cached and left none
C6_Witness ==
    /\ last.op = "retrain_user_model"
    /\ last.before # None
    /\ ~last.ret.success
    /\ CacheOf(predictor)[last.person] = None

\* C8: a call for person p leaves the cached bundle, or the absence of one,
\* of every other person unchanged, in both caches.
C8_OtherPersonsUntouched ==
    [][\A q \in Persons \ {last'.person} :
          /\ CacheOf(predictor')[q] = CacheOf(predictor)[q]
          /\ CacheOf(ml_predictor')[q] = CacheOf(ml_predictor)[q]
      ]_vars

\* a retrain for one person while another person has a bundle cached
C8_Witness ==
    /\ last.op = "retrain_user_model"
    /\ \E q \in Persons \ {last.person} : CacheOf(predictor)[q] # None

\* C9: predict_for_month answers with the statistical fallback, is_ml =
\* FALSE and no error, when the person has no bundle or the category is not
\* in the encoder's vocabulary; the bundle stays as it is, and a category of
\* the vocabulary is predicted by the model (is_ml = TRUE).
C9_StatisticalFallback ==
    last.op = "predict_for_month" =>
        LET b == last.model_data
            p == last.person
        IN /\ ~IsRaised(last.ret)
           /\ CacheOf(predictor)[p] = b
           /\ IF b = None \/ last.category \notin b.categories
              THEN /\ last.ret.is_ml = FALSE
                   /\ last.ret.method \in {"no_data", "no_category_data", "monthly_average",
                                            "recent_average", "category_average"}
                   /\ last.ret.estimated_amount =
                         _predict_with_statistics(store[p], last.category, last.month).estimated_amount
              ELSE /\ last.ret.is_ml = TRUE
                   /\ last.ret.method = "random_forest"

\* a forecast for a category that has transactions but is unknown to the
\* encoder of the person's bundle
C9_Witness ==
    /\ last.op = "predict_for_month"
    /\ last.model_data # None
    /\ last.category \notin last.model_data.categories
    /\ last.ret.is_ml = FALSE
    /\ last.ret.has_data


\* C16: the list predict_all_categories returns holds exactly one entry per
\* expense category; every is_ml entry precedes every entry that is not;
\* among equal is_ml, has_data precedes no data; among equal (is_ml,
\* has_data) the estimated_amount is non-increasing.
C16_SortedEntries ==
    last.op = "predict_all_categories" =>
        /\ Len(last.ret) = Cardinality(Categories)
        /\ \A k \in DOMAIN last.ret : ~IsRaised(last.ret[k])
        /\ \A c \in Categories :
              Cardinality({k \in DOMAIN last.ret : last.ret[k].category = c}) = 1
        /\ \A i \in DOMAIN last.ret : \A j \in DOMAIN last.ret :
              i < j =>
                 LET a == last.ret[i]
                     b == last.ret[j]
                 IN /\ b.is_ml => a.is_ml
                    /\ (a.is_ml = b.is_ml /\ b.has_data) => a.has_data
                    /\ (a.is_ml = b.is_ml /\ a.has_data = b.has_data)
                          => a.estimated_amount >= b.estimated_amount

\* a list the sort has reordered, with model-backed entries ahead of a
\* statistical entry that has data
C16_Witness ==
    /\ last.op = "predict_all_categories"
    /\ last.ret[1].category # 1
    /\ last.ret[1].is_ml
    /\ \E k \in DOMAIN last.ret : ~last.ret[k].is_ml /\ last.ret[k].has_data


\* the requests that serve a forecast
ForecastOps == {"predict_for_month", "predict_next_months", "predict_all_categories"}

\* C27: the forecast served for a person next after add_transaction for
\* that person has returned is computed from a bundle trained on the frame
\* that holds the new transaction, or from statistics when that frame
\* trains no bundle; never from a bundle trained before the transaction.
C27_ForecastAfterAdd ==
    [][(/\ last.op = "add_transaction"
        /\ last'.op \in ForecastOps
        /\ last'.person = last.person)
       => IF last'.model_data = None
          THEN _train_model(store'[last.person], learner, clock) = None
          ELSE last'.model_data.metrics.training_samples
                   = CountRows(store'[last.person])]_vars


\* the requests that call _get_or_train_model for a person with transactions
TrainingLookups == LookupOps \cup {"get_user_summary"}

\* C30: a failed training is not memoized.  A lookup that returns no bundle
\* leaves no entry for the person, and a lookup for a person without a
\* cached bundle whose transactions meet all training conditions trains
\* and returns the bundle of those transactions, no retrain_user_model
\* being needed in between.
C30_FailureNotMemoized ==
    [][(last'.op \in TrainingLookups /\ store[last'.person] # <<>>)
       => /\ last'.model_data = None
             => CacheOf(predictor')[last'.person] = None
          /\ (/\ CacheOf(predictor)[last'.person] = None
              /\ _train_model(store[last'.person], learner, clock) # None)
             => /\ last'.trained
                /\ last'.model_data = _train_model(store[last'.person], learner, clock)
                /\ CacheOf(predictor')[last'.person] = last'.model_data]_vars

\* a forecast for the person whose 29 transactions trained no bundle: the
\* thirtieth has been added since, and the lookup trained on the thirty
\* although the forecasting predictor was never asked to retrain
C30_Witness ==
    /\ last.op \in TrainingLookups
    /\ last.via = "predictor"
    /\ last.trained
    /\ last.model_data # None
    /\ last.model_data.metrics.training_samples = MIN_TRANSACTIONS_FOR_ML
    /\ nops = 1
    /\ _train_model(H_29, learner, clock) = None
    /\ \E c \in TxCategories, t \in TxDates, a \in TxAmounts :
          store[last.person] = InsertTx(H_29, c, t, a)


(***************************************************************************)
(* SpecTrain: training and forecasting over a family of histories          *)
(***************************************************************************)
MinMonths == 3       \* the shortest history, in months
MaxMonths == 6       \* the longest

\* the amounts of category 1, month by month
Wave == <<10, 20, 10, 30, 20, 40, 30, 50, 40, 60>>
\* the numbers of transactions per month of categories 1 and 2
TrainCopies == {<<2, 2>>, <<3, 2>>, <<5, 5>>}
\* the amounts of category 2 in its last three months; 5 before them
TailAmounts == {3, 5}

\* the history of T months with copies k and tail pattern pat
TrainHistory(T, k, pat) ==
    History(T, SubSeq(Wave, 1, T), [j \in 1..T |-> k[1]],
               [j \in 1..T |-> IF j <= T - 3 THEN 5 ELSE pat[j - (T - 3)]],
               [j \in 1..T |-> k[2]])

TrainHistories ==
    {TrainHistory(T, k, pat) : T \in MinMonths..MaxMonths, k \in TrainCopies,
                               pat \in [1..3 -> TailAmounts]}

\* the person whose history varies
Trainee == 1

InitTrain ==
    /\ store \in {st \in [Persons -> TrainHistories \cup {H_empty}] :
                      st[Trainee] \in TrainHistories
                      /\ \A q \in Persons \ {Trainee} : st[q] = H_empty}
    /\ predictor = None
    /\ ml_predictor = None
    /\ clock = 0
    /\ learner \in Regressors
    /\ nops = 0
    /\ pc = [t \in Threads |-> Idle]
    /\ last = [op |-> "start"]
    /\ NoAggCall

NextTrain ==
    \/ \E c \in ForecastCategories, m \in ForecastMonths : PredictForMonth(Trainee, c, m)
    \/ GetFeatureImportance(Trainee)
    \/ Retrain(Trainee)

SpecTrain == InitTrain /\ [][NextTrain]_vars

\* the calendar months from the first transaction to the last
MonthsOfHistory(d) == Len(date_range(MinDate(d), MaxDate(d)))

\* the feature rows that keep their three lags
UsableRows(d) == Len(DropNaLags(_create_features(_aggregate_to_monthly(d))))

\* C5: a bundle is created and cached for p only if, at the time of
\* training, p has at least 30 expense transactions, at least 4 calendar
\* months of history and at least 6 feature rows with all three lags; when
\* one of the three fails the training returns no bundle and the cache
\* holds nothing for p.
C5_TrainingThresholds ==
    (last.op # "start" /\ last.trained) =>
        LET p == last.person
            d == store[p]
            b == CacheOf(predictor)[p]
            enough == /\ CountRows(d) >= 30
                      /\ MonthsOfHistory(d) >= 4
                      /\ UsableRows(d) >= 6
        IN /\ b # None => enough
           /\ ~enough => (b = None /\ last.model_data = None)

\* a training that meets the counts of transactions and months but keeps
\* fewer than 6 feature rows, and caches nothing
C5_Witness ==
    /\ last.op = "_get_or_train_model"
    /\ last.trained
    /\ CountRows(store[last.person]) >= 30
    /\ MonthsOfHistory(store[last.person]) >= 4
    /\ UsableRows(store[last.person]) < 6
    /\ CacheOf(predictor)[last.person] = None

\* the amount of the final month of the series of category c
FinalAmount(d, c) == LastRowOf(_aggregate_to_monthly(d), c).amount

\* C10: when _predict_with_ml takes the constant-spending short-circuit
\* (standard deviation below 1e-3, or three equal lags) the amount returned
\* is the amount of the final month of the category's series, with
\* confidence high.
C10_ShortCircuitLastValue ==
    (/\ last.op = "predict_for_month"
     /\ last.model_data # None
     /\ last.category \in last.model_data.categories
     /\ _predict_with_ml(last.model_data, last.category, last.month).short_circuit)
    => (/\ last.ret.estimated_amount = FinalAmount(store[last.person], last.category)
        /\ last.ret.confidence = "high")


\* the monthly totals of category c in the gap-filled series of d, oldest first
SeriesOf(d, c) ==
    AmountsOf(SelectSeq(_aggregate_to_monthly(d), LAMBDA r : r.category = c))

\* C29: the latest-lag snapshot of a bundle holds, for each category, the
\* lags of the last feature row: lag_1, lag_2 and lag_3 are the amounts of
\* the months 1, 2 and 3 before the final month of the gap-filled series,
\* and these, not the amount of the final month, are the lags from which
\* _predict_with_ml predicts.
C29_LagsBeforeFinalMonth ==
    \A p \in Persons :
       CacheOf(predictor)[p] # None
       => \A c \in DOMAIN CacheOf(predictor)[p].latest_lags :
             LET row == CacheOf(predictor)[p].latest_lags[c]
                 g == CachedLags(CacheOf(predictor)[p], c)
                 series == SeriesOf(store[p], c)
                 T == Len(series)
             IN /\ T >= 4
                /\ row.lag_1 = Some(series[T - 1])
                /\ row.lag_2 = Some(series[T - 2])
                /\ row.lag_3 = Some(series[T - 3])
                /\ g.lag_1 = series[T - 1]
                /\ g.lag_2 = series[T - 2]
                /\ g.lag_3 = series[T - 3]

\* a forecast from a bundle whose category ends in a month that differs
\* from the three before it, none of the snapshot's lags being its amount
C29_Witness ==
    /\ last.op = "predict_for_month"
    /\ last.model_data # None
    /\ last.model_data = CacheOf(predictor)[last.person]
    /\ last.category \in DOMAIN last.model_data.latest_lags
    /\ LET series == SeriesOf(store[last.person], last.category)
           g == CachedLags(last.model_data, last.category)
       IN /\ series[Len(series)] \notin {g.lag_1, g.lag_2, g.lag_3}
          /\ g.lag_1 = series[Len(series) - 1]
          /\ last.ret.is_ml


\* SpecSummary: the requests of SpecTrain and GET /predictions/summary
NextSummary ==
    \/ NextTrain
    \/ GetUserSummary(Trainee)

SpecSummary == InitTrain /\ [][NextSummary]_vars

\* C28: whenever retrain_user_model returns success = FALSE, the
\* current_count it reports is less than the required count it reports;
\* and whenever get_user_summary reports uses_ml = FALSE for a person with
\* transactions, transactions_needed is greater than 0.
C28_FailureMeansTooFew ==
    /\ (last.op \in RetrainOps /\ ~last.ret.success)
       => last.ret.current_count < last.ret.required
    /\ (last.op = "get_user_summary" /\ store[last.person] # <<>> /\ ~last.ret.uses_ml)
       => last.ret.transactions_needed > 0


(***************************************************************************)
(* SpecForecast: the forecasts of a person over a family of histories      *)
(***************************************************************************)
MaxAhead == 12       \* the longest forecast asked for, in months

\* k transactions of amount a each, of category c in the month t
Tx(c, t, a, k) ==
    [category |-> c, year |-> t.year, month |-> t.month, amount |-> a, copies |-> k]

\* a history of one category: month j from `first` on holds copies[j]
\* transactions of amounts[j] each
Monthly(c, first, amounts, copies) ==
    [j \in DOMAIN amounts |-> Tx(c, MonthAfter(first, j - 1), amounts[j], copies[j])]

\* twelve months, March 2023 to February 2024, of category 1 with a monthly
\* total of 50 made of k equal transactions
SteadyCopies == {1, 2, 5}
Steady(k) == Monthly(1, Date(2023, 3), [j \in 1..12 |-> 50 \div k], [j \in 1..12 |-> k])

\* six months of 30 transactions: category 1 follows s1, category 2 spends 5
\* in each of five months and 1 in the last
Graded(s1) == History(6, s1, <<3, 3, 3, 3, 3, 3>>,
                         <<5, 5, 5, 5, 5, 1>>, <<2, 2, 2, 2, 2, 2>>)
\* series of category 1 whose last three months vary little, some, much
GradedSeries == {<<10, 20, 30, 40, 38, 40>>, <<10, 20, 10, 30, 20, 40>>,
                 <<10, 30, 20, 40, 10, 60>>}

\* a few transactions of category 1, too few for a bundle: two Aprils with
\* totals 100 and 200 (the first made of two transactions), alone or
\* followed by two later months; and a single month
H_aprils == <<Tx(1, Date(2022, 4), 40, 1), Tx(1, Date(2022, 4), 60, 1),
              Tx(1, Date(2023, 4), 200, 1)>>
H_sparse == H_aprils \o <<Tx(1, Date(2023, 11), 30, 1), Tx(1, Date(2024, 1), 60, 2)>>
H_single == <<Tx(1, Date(2024, 1), 70, 1)>>

ForecastHistories ==
    {Steady(k) : k \in SteadyCopies}
    \cup {Graded(s1) : s1 \in GradedSeries}
    \cup {H_aprils, H_sparse, H_single}

\* the inputs of the requests
AheadInputs == {0 - 1, 0, 1, 3, MaxAhead}
MonthInputs == 1..12
TargetInputs == {Date(2023, 12), Date(2024, 3), Date(2024, 5), Date(2025, 1)}

InitForecast ==
    /\ store \in {st \in [Persons -> ForecastHistories \cup {H_empty}] :
                      st[Trainee] \in ForecastHistories
                      /\ \A q \in Persons \ {Trainee} : st[q] = H_empty}
    /\ predictor = None
    /\ ml_predictor = None
    /\ clock = 0
    /\ learner \in Regressors
    /\ nops = 0
    /\ pc = [t \in Threads |-> Idle]
    /\ last = [op |-> "start"]
    /\ NoAggCall

NextForecast ==
    \/ \E p \in Persons, c \in Categories, m \in MonthInputs : PredictForMonth(p, c, m)
    \/ \E p \in Persons, c \in Categories, n \in AheadInputs : PredictNextMonths(p, c, n)
    \/ \E p \in Persons, t \in TargetInputs : PredictAllCategories(p, t)
    \/ \E p \in Persons : GetUserSummary(p)

SpecForecast == InitForecast /\ [][NextForecast]_vars

\* the monthly totals of category c in the frame d, in date order
TotalsOf(d, c) == AmountsOf(GroupByMonth(SelectSeq(d, LAMBDA r : r.category = c)))

\* d is a history of category c alone: 12 consecutive months, each with a total of 50
TwelveFifties(d, c) ==
    /\ d # <<>>
    /\ \A i \in DOMAIN d : d[i].category = c
    /\ MonthsOfHistory(d) = 12
    /\ TotalsOf(d, c) = [j \in 1..12 |-> 50]

\* the forecasts of the last request: the prediction of predict_for_month,
\* the points of predict_next_months
ForecastsOfLast ==
    IF last.op = "predict_for_month" THEN {last.ret}
    ELSE IF last.op = "predict_next_months" THEN Range(last.ret)
    ELSE {}

\* C11 as stated: a category with 12 consecutive monthly totals of 50,
\* whatever number of transactions makes them up, is forecast by
\* predict_for_month and by every point of predict_next_months with
\* estimated_amount = 50 and confidence = high.
C11_SteadyFiftyHigh ==
    (last.op \in {"predict_for_month", "predict_next_months"}
     /\ TwelveFifties(store[last.person], last.category))
    => \A f \in ForecastsOfLast :
          f.estimated_amount = 50 /\ f.confidence = "high"

\* C11 amended: every such forecast has estimated_amount = 50; its confidence
\* is high when the totals are made of at least 30 transactions (a bundle is
\* trained and the short-circuit answers) and low otherwise (recent_average).
C11_SteadyFiftyByCount ==
    (last.op \in {"predict_for_month", "predict_next_months"}
     /\ TwelveFifties(store[last.person], last.category))
    => \A f \in ForecastsOfLast :
          /\ f.estimated_amount = 50
          /\ IF CountRows(store[last.person]) >= MIN_TRANSACTIONS_FOR_ML
             THEN f.confidence = "high" /\ f.is_ml
             ELSE f.confidence = "low" /\ ~f.is_ml /\ f.method = "recent_average"

\* a forecast of MaxAhead months for a steady category made of 60 transactions
C11_Witness ==
    /\ last.op = "predict_next_months"
    /\ TwelveFifties(store[last.person], last.category)
    /\ CountRows(store[last.person]) = 60
    /\ Len(last.ret) = MaxAhead
    /\ \A i \in DOMAIN last.ret : last.ret[i].estimated_amount = 50

\* the cv of the category in the bundle, squared
CvOf(model_data, category_name) == model_data.latest_lags[category_name].cv_sq

LagInput(model_data, category_name, q) ==
    FeatureVector(model_data, category_name, q.month).lag_1

\* C13: in predict_next_months with a model available for the category, the
\* lag_1 used as model input at step i + 1 equals the estimated_amount
\* returned at step i, for every i in 1..N-1.
C13_WalkForward ==
    (/\ last.op = "predict_next_months"
     /\ last.model_data # None
     /\ last.category \in last.model_data.categories)
    => \A i \in 1..(Len(last.ret) - 1) :
          LagInput(last.model_data, last.category, last.ret[i + 1])
             = last.ret[i].estimated_amount


\* C14: predict_next_months(p, c, N) returns exactly N points for N >= 1 and
\* none for N <= 0, in chronological order; the i-th point carries the
\* calendar month i months after the current month, the year going up at
\* each step from December to January, and a month in 1..12.  The same holds
\* of the month and year computed from any current month.
C14_NextMonthsCalendar ==
    last.op = "predict_next_months" =>
        /\ Len(last.ret) = (IF last.month >= 1 THEN last.month ELSE 0)
        /\ \A i \in DOMAIN last.ret :
              /\ ~IsRaised(last.ret[i])
              /\ Date(last.ret[i].year, last.ret[i].month) = MonthAfter(Today, i)
              /\ last.ret[i].month \in 1..12
        /\ \A i \in 1..(Len(last.ret) - 1) :
              /\ Date(last.ret[i + 1].year, last.ret[i + 1].month)
                    = NextMonthStart(Date(last.ret[i].year, last.ret[i].month))
              /\ last.ret[i].month = 12 <=> last.ret[i + 1].year = last.ret[i].year + 1
        /\ \A m0 \in 1..12 : \A i \in 1..(2 * MaxAhead) :
              Date(FutureYear(Date(2024, m0), i), FutureMonth(Date(2024, m0), i))
                 = MonthAfter(Date(2024, m0), i)

\* a forecast of MaxAhead months that runs into the next year
C14_Witness ==
    /\ last.op = "predict_next_months"
    /\ last.month = MaxAhead
    /\ Len(last.ret) = MaxAhead
    /\ \E i \in 1..(Len(last.ret) - 1) :
          /\ last.ret[i].month = 12 /\ last.ret[i].year = 2024
          /\ last.ret[i + 1].month = 1 /\ last.ret[i + 1].year = 2025


\* months_diff of a predict_all_categories request
MonthsDiff(l) == (l.year - Today.year) * 12 + (l.month - Today.month)

\* the entry of category c in the list ret
EntriesOf(ret, c) == {ret[k] : k \in {j \in DOMAIN ret : ret[j].category = c}}

\* the five keys predict_all_categories copies from a forecast point
PointKeys(q) ==
    [estimated_amount |-> q.estimated_amount, method |-> q.method,
     confidence |-> q.confidence, has_data |-> q.has_data, is_ml |-> q.is_ml]

\* C15: with months_diff = (year - current year) * 12 + (month - current
\* month), predict_all_categories gives each category exactly the result of
\* predict_for_month(p, category, month) when months_diff <= 0 (the current
\* month included), and uses predict_next_months only when months_diff > 0.
C15_DirectOrRecursive ==
    last.op = "predict_all_categories" =>
        \A c \in Categories :
           IF MonthsDiff(last) <= 0
           THEN EntriesOf(last.ret, c) =
                   {[category_id |-> c, category |-> c]
                    @@ PredictionFor(last.model_data, store[last.person], c, last.month)}
           ELSE EntriesOf(last.ret, c) =
                   {[category_id |-> c, category |-> c]
                    @@ PointKeys(ForecastFor(last.model_data, store[last.person], c,
                                             MonthsDiff(last), Today)[MonthsDiff(last)])}

\* a request for the current month answered by the model, directly
C15_Witness ==
    /\ last.op = "predict_all_categories"
    /\ MonthsDiff(last) = 0
    /\ \E k \in DOMAIN last.ret :
          last.ret[k].is_ml /\ last.ret[k].method = "random_forest"


\* the monthly totals of category c that fall in the calendar month m
TotalsInMonth(d, c, m) ==
    AmountsOf(SelectSeq(GroupByMonth(SelectSeq(d, LAMBDA r : r.category = c)),
                        LAMBDA r : r.month = m))

\* C17: _predict_with_statistics applies the first rule that holds: at least
\* 2 monthly totals for the requested calendar month give their mean with
\* monthly_average and medium; else at least 3 monthly totals give the mean
\* of the 3 most recent with recent_average and low; else any monthly total
\* gives the overall mean with category_average and low.
C17_StatisticsRules ==
    (/\ last.op = "predict_for_month"
     /\ ~last.ret.is_ml
     /\ TotalsOf(store[last.person], last.category) # <<>>)
    => LET t == TotalsOf(store[last.person], last.category)
           tm == TotalsInMonth(store[last.person], last.category, last.month)
           n == Len(t)
       IN IF Len(tm) >= 2
          THEN /\ last.ret.estimated_amount = RoundDiv(SumInts(tm), Len(tm))
               /\ last.ret.method = "monthly_average"
               /\ last.ret.confidence = "medium"
          ELSE IF n >= 3
          THEN /\ last.ret.estimated_amount = RoundDiv(t[n - 2] + t[n - 1] + t[n], 3)
               /\ last.ret.method = "recent_average"
               /\ last.ret.confidence = "low"
          ELSE /\ last.ret.estimated_amount = RoundDiv(SumInts(t), n)
               /\ last.ret.method = "category_average"
               /\ last.ret.confidence = "low"

\* totals 100 and 200 for the requested month, among four monthly totals:
\* the answer is 150 by monthly_average
C17_Witness ==
    /\ last.op = "predict_for_month"
    /\ TotalsInMonth(store[last.person], last.category, last.month) = <<100, 200>>
    /\ Len(TotalsOf(store[last.person], last.category)) >= 3
    /\ last.ret.estimated_amount = 150
    /\ last.ret.method = "monthly_average"


\* C18: when the person has no expense transaction at all, or none in the
\* requested category, predict_for_month (through _predict_with_statistics)
\* returns estimated_amount = 0, method = no_data, confidence = none and
\* has_data = FALSE, and raises nothing.
C18_NoDataAnswer ==
    (/\ last.op = "predict_for_month"
     /\ TotalsOf(store[last.person], last.category) = <<>>)
    => /\ ~IsRaised(last.ret)
       /\ last.ret.estimated_amount = 0
       /\ last.ret.method = "no_data"
       /\ last.ret.confidence = "none"
       /\ last.ret.has_data = FALSE


\* C19: for a person with zero expense transactions get_user_summary
\* returns has_data = FALSE, total_spent = 0, uses_ml = FALSE and an empty
\* category list, trains nothing and leaves no cache entry for that person.
C19_EmptySummary ==
    (last.op = "get_user_summary" /\ store[last.person] = <<>>)
    => /\ last.ret.has_data = FALSE
       /\ last.ret.total_spent = 0
       /\ last.ret.uses_ml = FALSE
       /\ last.ret.categories = <<>>
       /\ ~last.trained
       /\ CacheOf(predictor)[last.person] = None

\* the summary of a person without transactions, asked for while another
\* person's bundle is cached
C19_Witness ==
    /\ last.op = "get_user_summary"
    /\ store[last.person] = <<>>
    /\ last.ret.has_data = FALSE
    /\ \E q \in Persons : CacheOf(predictor)[q] # None


\* the predictions of the last request, those of predict_all_categories included
PredictionsOfLast ==
    IF last.op = "predict_all_categories" THEN Range(last.ret) ELSE ForecastsOfLast

\* C21: every prediction and forecast point returned by predict_for_month,
\* predict_next_months and predict_all_categories, by the model or by a
\* fallback, has estimated_amount >= 0 and a confidence in {high, medium,
\* low, none} (the stored amounts being non-negative).
C21_AmountAndConfidence ==
    \A f \in PredictionsOfLast :
       /\ ~IsRaised(f)
       /\ f.estimated_amount >= 0
       /\ f.confidence \in {"high", "medium", "low", "none"}

\* a prediction where the fitted model answers below zero and 0 is returned
C21_Witness ==
    /\ last.op = "predict_for_month"
    /\ last.ret.is_ml
    /\ ~_predict_with_ml(last.model_data, last.category, last.month).short_circuit
    /\ Predict(last.model_data.model,
               FeatureVector(last.model_data, last.category, last.month)) < 0
    /\ last.ret.estimated_amount = 0


\* current_lags after step k of the loop of predict_next_months on the model
\* branch, where lags0 is the state prepared before the loop and points are
\* the points appended
RECURSIVE LagsAfter(_, _, _)
LagsAfter(points, k, lags0) ==
    IF k = 0 THEN lags0
    ELSE NextLags(LagsAfter(points, k - 1, lags0), points[k].estimated_amount)

\* C22: after each model-backed step of predict_next_months the lag state
\* for the next step has lag_1 = this step's estimated_amount, lag_2 = the
\* previous lag_1, lag_3 = the previous lag_2, pct_change = (estimate -
\* previous lag_1) / previous lag_1 (0 when the previous lag_1 is not
\* positive) and the cv of the initial state, through all N steps.
C22_LagUpdate ==
    (/\ last.op = "predict_next_months"
     /\ last.model_data # None
     /\ last.category \in last.model_data.categories)
    => LET lags0 == InitialLags(last.model_data, last.category)
       IN \A k \in DOMAIN last.ret :
             LET prev == LagsAfter(last.ret, k - 1, lags0)
                 cur == LagsAfter(last.ret, k, lags0)
                 est == last.ret[k].estimated_amount
             IN /\ last.ret[k].is_ml
                /\ cur.lag_1 = est
                /\ cur.lag_2 = prev.lag_1
                /\ cur.lag_3 = prev.lag_2
                /\ cur.pct_change.num * (IF prev.lag_1 > 0 THEN prev.lag_1 ELSE 1)
                      = (IF prev.lag_1 > 0 THEN est - prev.lag_1 ELSE 0) * cur.pct_change.den
                /\ cur.cv_sq = lags0.cv_sq

\* a three-step forecast by the model whose first estimate is 0 and whose
\* initial lags differ: the second update meets a previous lag_1 of 0, the
\* first a positive one
C22_Witness ==
    /\ last.op = "predict_next_months"
    /\ Len(last.ret) = 3
    /\ last.ret[1].is_ml
    /\ last.ret[1].estimated_amount = 0
    /\ LET lags0 == InitialLags(last.model_data, last.category)
       IN lags0.lag_1 > 0 /\ lags0.lag_1 # lags0.lag_2 /\ lags0.lag_2 # lags0.lag_3


\* C24: for a target (month, year) with months_diff > 0 the sequence
\* predict_next_months(p, c, months_diff) has the target as the (month,
\* year) of its last point, so predict_all_categories returns that point's
\* estimate for each category and never the placeholder with method = error.
C24_TargetIsLastPoint ==
    (last.op = "predict_all_categories" /\ MonthsDiff(last) > 0)
    => \A c \in Categories :
          LET future_sequence == ForecastFor(last.model_data, store[last.person], c,
                                             MonthsDiff(last), Today)
              target_pred == future_sequence[Len(future_sequence)]
          IN /\ Len(future_sequence) = MonthsDiff(last)
             /\ target_pred.month = last.month /\ target_pred.year = last.year
             /\ \A q \in Range(future_sequence) :
                   (q.month = last.month /\ q.year = last.year) => q = target_pred
             /\ \A e \in EntriesOf(last.ret, c) :
                   /\ e.method # "error"
                   /\ e.estimated_amount = target_pred.estimated_amount

\* a request for January 2025, ten months ahead, answered by the model
C24_Witness ==
    /\ last.op = "predict_all_categories"
    /\ MonthsDiff(last) = 10
    /\ last.year = Today.year + 1
    /\ \E k \in DOMAIN last.ret :
          last.ret[k].is_ml /\ last.ret[k].method = "gradient_boosting_recursive"


(***************************************************************************)
(* SpecUser: the class UserMLPredictor of user_predictor.py, which the     *)
(* script test_predictions.py drives, beside the requests of SpecForecast  *)
(***************************************************************************)
MIN_MONTHLY_ROWS == 6

\* monthly_df of _train_user_model: one row for each (category, year, month)
\* that holds a transaction; no month is filled in
MonthlyGroups(d) == {<<d[i].category, d[i].year, d[i].month>> : i \in DOMAIN d}

\* user_predictor.UserMLPredictor._train_user_model on the frame d: the
\* metrics of the bundle (all that get_user_summary reads of it), or None.
\* MIN_TRANSACTIONS_FOR_ML is 30 in this class too (user_predictor.py:35).
_train_user_model(d) ==
    IF CountRows(d) < MIN_TRANSACTIONS_FOR_ML THEN None
    ELSE IF Cardinality(MonthlyGroups(d)) < MIN_MONTHLY_ROWS THEN None
    ELSE [metrics |-> [training_months |-> Cardinality(MonthlyGroups(d)),
                       training_samples |-> CountRows(d)]]

\* user_predictor.UserMLPredictor.get_user_summary on a predictor that was
\* just constructed (its _get_or_train_model trains); ml_status, the
\* averages, the category list and the date range are left out
UserSummaryFor(d) ==
    IF d = <<>>
    THEN [has_data |-> FALSE, total_transactions |-> 0, total_spent |-> 0,
          uses_ml |-> FALSE, categories |-> <<>>]
    ELSE LET model_data == _train_user_model(d)
         IN [has_data |-> TRUE, total_transactions |-> CountRows(d),
             total_spent |-> SumAmount(d),
             uses_ml |-> model_data # None,
             model_metrics |-> IF model_data # None THEN model_data.metrics ELSE None]

\* the keys of the summary that test_predictions_for_user subscripts
SummaryReads == {"total_transactions", "uses_ml", "model_metrics"}

\* test_predictions_for_user(person_id, test_months) up to its banner:
\* UserMLPredictor(), get_user_summary(person_id) and the three subscripts,
\* the first missing key raising KeyError
TestPredictionsForUser(p) ==
    /\ last' = [op |-> "test_predictions_for_user", via |-> "script", person |-> p,
                category |-> 0, month |-> 0, trained |-> store[p] # <<>>,
                model_data |-> None,
                summary |-> UserSummaryFor(store[p]),
                ret |-> IF SummaryReads \subseteq DOMAIN UserSummaryFor(store[p])
                        THEN [printed |-> TRUE]
                        ELSE Raised("KeyError")]
    /\ UNCHANGED <<store, predictor, ml_predictor, clock, learner, nops, pc>>
    /\ UNCHANGED aggvars

NextUser ==
    \/ NextForecast
    \/ \E p \in Persons : TestPredictionsForUser(p)

SpecUser == InitForecast /\ [][NextUser]_vars

\* C26: get_user_summary of user_predictor.UserMLPredictor returns, for
\* every person (one without transactions and one without a trained model
\* included), a record with the fields total_transactions, uses_ml and
\* model_metrics, so that the caller that reads the three does not fail.
C26_SummaryFields ==
    last.op = "test_predictions_for_user"
    => /\ SummaryReads \subseteq DOMAIN last.summary
       /\ ~IsRaised(last.ret)


(***************************************************************************)
(* SpecFeatures: training and forecasting over series with zero months and *)
(* jumps                                                                   *)
(***************************************************************************)
FeatFree == 5        \* the months of a series whose amounts vary freely

\* the amounts of a transaction: nothing, little, much
FeatAmounts == {0, 1, 40}
\* the months before the free ones
FeatLead == <<40, 0, 0, 1>>

\* a history of category 1 alone, 5 transactions a month from June 2023
FeatHistory(tail) ==
    Monthly(1, Date(2023, 6), FeatLead \o tail, [j \in 1..(Len(FeatLead) + Len(tail)) |-> 5])

FeatHistories == {FeatHistory(tail) : tail \in [1..FeatFree -> FeatAmounts]}

InitFeatures ==
    /\ store \in {st \in [Persons -> FeatHistories \cup {H_empty}] :
                      st[Trainee] \in FeatHistories
                      /\ \A q \in Persons \ {Trainee} : st[q] = H_empty}
    /\ predictor = None
    /\ ml_predictor = None
    /\ clock = 0
    /\ learner \in Regressors
    /\ nops = 0
    /\ pc = [t \in Threads |-> Idle]
    /\ last = [op |-> "start"]
    /\ NoAggCall

SpecFeatures == InitFeatures /\ [][NextTrain]_vars

\* lo <= x <= hi for a fraction x and integers lo, hi
Within(x, lo, hi) == ~FracLt(x, FracOfInt(lo)) /\ ~FracLt(FracOfInt(hi), x)

\* the frame _create_features builds from the person's transactions
FeaturesOf(d) == _create_features(_aggregate_to_monthly(d))

\* C20: every pct_change that _create_features produces and every pct_change
\* that _predict_with_ml places in a feature vector lies in [-2, 2], and
\* every cv in [0, 3] (its square in [0, 9]), for non-negative monthly
\* amounts that include a zero previous month and a zero rolling mean.
C20_ClippedFeatures ==
    last.op # "start" =>
        /\ \A r \in Range(FeaturesOf(store[last.person])) :
              Within(r.pct_change, 0 - 2, 2) /\ Within(r.cv_sq, 0, 9)
        /\ (/\ last.op = "predict_for_month"
            /\ last.model_data # None
            /\ last.category \in last.model_data.categories)
           => LET X == FeatureVector(last.model_data, last.category, last.month)
              IN Within(X.pct_change, 0 - 2, 2) /\ Within(X.cv_sq, 0, 9)

\* a model prediction for a series with a jump that the clip cuts to 2, a
\* month that follows a zero month, and three zero months in a row
C20_Witness ==
    /\ last.op = "predict_for_month"
    /\ last.ret.is_ml
    /\ LET a == TotalsOf(store[last.person], last.category)
           f == FeaturesOf(store[last.person])
       IN /\ \E j \in 2..Len(a) : a[j - 1] > 0 /\ a[j] > 3 * a[j - 1]
          /\ \E j \in DOMAIN f : f[j].pct_change = FracOfInt(2)
          /\ \E j \in 2..Len(a) : a[j - 1] = 0 /\ a[j] > 0
          /\ \E j \in 3..Len(a) : a[j - 2] = 0 /\ a[j - 1] = 0 /\ a[j] = 0


\* C25: trend_direction is sign(lag_1 - lag_2) both in the feature rows
\* that _create_features builds for training and in the feature vector that
\* _predict_with_ml assembles, for all lag values including lag_2 = 0: the
\* same (lag_1, lag_2) gives the same trend_direction in both.
C25_SameTrendDirection ==
    (/\ last.op = "predict_for_month"
     /\ last.model_data # None
     /\ last.category \in last.model_data.categories)
    => LET X == FeatureVector(last.model_data, last.category, last.month)
           rows == DropNaLags(FeaturesOf(store[last.person]))
       IN /\ \A r \in Range(rows) : r.trend_direction = Sign(r.lag_1[1] - r.lag_2[1])
          /\ X.trend_direction = Sign(X.lag_1 - X.lag_2)
          /\ \A r \in Range(rows) :
                (r.lag_1[1] = X.lag_1 /\ r.lag_2[1] = X.lag_2)
                   => r.trend_direction = X.trend_direction


(***************************************************************************)
(* SpecConc: the same requests, statement by statement.  add_transaction   *)
(* is a plain def: the server runs it on a thread of its pool, so two of   *)
(* them, and the event loop that runs the async endpoints of               *)
(* routers/predictions.py, interleave.  No statement of predictor.py takes *)
(* a lock.                                                                 *)
(***************************************************************************)
Workers == {"worker1", "worker2"}
EventLoop == "loop"

\* the person the concurrent requests are for
ConcPersons == {1}

\* the requests in flight
Active == {t \in Threads : pc[t] # Idle}

\* _user_models of the predictor a thread works on
ConcCache(t) == CacheOf(IF pc[t].via = "predictor" THEN predictor ELSE ml_predictor)

\* _user_models of that predictor becomes um
ConcSetCache(t, um) ==
    IF pc[t].via = "predictor"
    THEN predictor' = [user_models |-> um] /\ UNCHANGED ml_predictor
    ELSE ml_predictor' = [user_models |-> um] /\ UNCHANGED predictor

\* add_transaction up to the call of retrain_user_model: crud.create_transaction
ConcAddTransaction(t, p, c, d, a) ==
    /\ pc[t] = Idle
    /\ clock + Cardinality(Active) < MaxClock
    /\ store' = [store EXCEPT ![p] = InsertTx(store[p], c, d, a)]
    /\ nops' = nops + 1
    /\ pc' = [pc EXCEPT ![t] = [at |-> "retrain", person |-> p, via |-> "ml_predictor"]]
    /\ UNCHANGED <<predictor, ml_predictor, clock, learner, last>>
    /\ UNCHANGED aggvars

\* POST /predictions/retrain up to the call of retrain_user_model
ConcRetrainRequest(p) ==
    /\ pc[EventLoop] = Idle
    /\ clock + Cardinality(Active) < MaxClock
    /\ pc' = [pc EXCEPT ![EventLoop] = [at |-> "retrain", person |-> p, via |-> "predictor"]]
    /\ UNCHANGED <<store, predictor, ml_predictor, clock, learner, nops, last>>
    /\ UNCHANGED aggvars

\* _get_or_train_model: the test of the dict; a hit returns at once
ConcLookup(p) ==
    /\ pc[EventLoop] = Idle
    /\ clock + Cardinality(Active) < MaxClock
    /\ predictor' = GetSingleton(predictor)
    /\ pc' = [pc EXCEPT ![EventLoop] =
                 IF CacheOf(predictor)[p] # None THEN Idle
                 ELSE [at |-> "read", person |-> p, via |-> "predictor"]]
    /\ UNCHANGED <<store, ml_predictor, clock, learner, nops, last>>
    /\ UNCHANGED aggvars

\* retrain_user_model: del self._user_models[person_id]
ConcRetrainDelete(t) ==
    /\ pc[t] # Idle
    /\ pc[t].at = "retrain"
    /\ ConcSetCache(t, [ConcCache(t) EXCEPT ![pc[t].person] = None])
    /\ pc' = [pc EXCEPT ![t].at = "read"]
    /\ UNCHANGED <<store, clock, learner, nops, last>>
    /\ UNCHANGED aggvars

\* _train_model: df = self._get_user_transactions(person_id); the training
\* is in progress from here until the bundle is returned
ConcTrainRead(t) ==
    /\ pc[t] # Idle
    /\ pc[t].at = "read"
    /\ pc' = [pc EXCEPT ![t] = [at |-> "fit", person |-> pc[t].person, via |-> pc[t].via,
                                df |-> store[pc[t].person]]]
    /\ UNCHANGED <<store, predictor, ml_predictor, clock, learner, nops, last>>
    /\ UNCHANGED aggvars

\* _train_model: the rest of it, on the frame read
ConcTrainFit(t) ==
    /\ pc[t] # Idle
    /\ pc[t].at = "fit"
    /\ \E b \in {_train_model(pc[t].df, learner, clock)} :
          /\ pc' = [pc EXCEPT ![t] = [at |-> "store", person |-> pc[t].person,
                                      via |-> pc[t].via, model_data |-> b]]
          /\ clock' = IF b # None THEN clock + 1 ELSE clock
    /\ UNCHANGED <<store, predictor, ml_predictor, learner, nops, last>>
    /\ UNCHANGED aggvars

\* if model_data: self._user_models[person_id] = model_data; return
ConcStore(t) ==
    /\ pc[t] # Idle
    /\ pc[t].at = "store"
    /\ ConcSetCache(t, IF pc[t].model_data # None
                       THEN [ConcCache(t) EXCEPT ![pc[t].person] = pc[t].model_data]
                       ELSE ConcCache(t))
    /\ pc' = [pc EXCEPT ![t] = Idle]
    /\ UNCHANGED <<store, clock, learner, nops, last>>
    /\ UNCHANGED aggvars

NextConc ==
    \/ \E t \in Workers, p \in ConcPersons, c \in TxCategories, d \in TxDates, a \in TxAmounts :
          ConcAddTransaction(t, p, c, d, a)
    \/ \E p \in ConcPersons : ConcRetrainRequest(p)
    \/ \E p \in ConcPersons : ConcLookup(p)
    \/ \E t \in Threads : ConcRetrainDelete(t)
    \/ \E t \in Threads : ConcTrainRead(t)
    \/ \E t \in Threads : ConcTrainFit(t)
    \/ \E t \in Threads : ConcStore(t)

SpecConc == Init /\ [][NextConc]_vars

\* the threads that are training a model for person p
Training(p) == {t \in Threads : pc[t] # Idle /\ pc[t].at = "fit" /\ pc[t].person = p}

\* C7: under any interleaving of concurrent requests for the same person
\* at most one training for that person is in progress at any time.
C7_SerializedTraining ==
    \A p \in Persons : Cardinality(Training(p)) <= 1

====
